---- MODULE Spec2Model ----
(***************************************************************************)
(* A model of the poker-friends-server rules engine: PokerEngine (one      *)
(* table's state machine, chip accounting, side pots, showdown) and        *)
(* HandEvaluator (7-card ranking), translated from src/src/game/*.ts.      *)
(*                                                                         *)
(* Conventions.  TypeScript arrays are 0-based, TLA+ sequences 1-based:    *)
(* seat s of the code is element s+1 of `players`, `streetBets` and        *)
(* `totalBets`.  Every method of the engine is an operator that takes the  *)
(* engine object `this` (a record of the class fields) and returns the     *)
(* engine object after the call, with the returned value where the code    *)
(* returns one; an action applies one public method to the variables.      *)
(* `undefined`/`null` seats and categories are written NULL, an absent     *)
(* `hole` is the empty sequence.                                           *)
(***************************************************************************)
EXTENDS Integers, Sequences, FiniteSets, TLC

VARIABLES
  state,          \* PokerEngine.state : RoomState
  streetBets,     \* PokerEngine.streetBets : chips committed on this street
  totalBets,      \* PokerEngine.totalBets : chips committed in this hand
  publicReveals,  \* PokerEngine.publicReveals : seat -> revealed hole cards
  revealSeats,    \* PokerEngine.revealSeats : seats that may show or muck
  actionLog,      \* PokerEngine.actionLog : bounded log of texts
  bought,         \* observer: chips credited to stacks by addPlayer so far
  hands,          \* observer: number of effective startHand calls so far
  acts,           \* observer: number of accepted playerAction calls so far
  lastCall,       \* observer: the last call made on the engine and its result
  gone,           \* observer: the socket ids removePlayer has taken off the table
  view,           \* observer: the side pots of the last getBroadcastView()
  chosen,         \* observer: the ids whose doShow or doMuck succeeded in this hand
  ranked          \* observer: the cards of a HandEvaluator.rank7 call and its result

vars == <<state, streetBets, totalBets, publicReveals, revealSeats, actionLog,
          bought, hands, acts, lastCall, gone, view, chosen, ranked>>

engineVars == <<state, streetBets, totalBets, publicReveals, revealSeats, actionLog>>

----------------------------------------------------------------------------
(* Program constants *)

MAX_PLAYERS == 9
LOG_LIMIT == 200
NULL == -1

SUITS == <<"c", "d", "h", "s">>
RANKS == <<2, 3, 4, 5, 6, 7, 8, 9, 10, 11, 12, 13, 14>>

BettingStages == {"preflop", "flop", "turn", "river"}

----------------------------------------------------------------------------
(* Bounds of the model *)

\* Math.random is modelled by a 16-bit linear congruential generator; a
\* shuffle is started from one of the seeds 1..NumSeeds.
NumSeeds == 2
\* startHand takes effect at most MaxHands times in a run.
MaxHands == 2
\* playerAction is accepted at most MaxActs times in a run.
MaxActs == 8
\* In SpecCalls, where the refused calls are steps too, a run has at most
\* MaxCallHands effective startHand calls and MaxCallActs accepted actions.
MaxCallHands == 1
MaxCallActs == 5
\* In SpecTable, where players also leave, removePlayer takes at most MaxLeaves
\* players off the table and at most MaxTableActs actions are accepted.
MaxLeaves == 2
MaxTableActs == 5
\* In SpecFull, where the table fills up, NumGuests sockets ask for a seat, one
\* hand is played and at most MaxFullActs actions are accepted.
NumGuests == 10
MaxFullHands == 1
MaxFullActs == 15

\* In SpecPots the side pots are built from ledgers of three seats whose
\* contributions in the hand are drawn from PotAmounts.
PotAmounts == {0, 10, 20, 30, 50}

\* The join requests the session layer sends: (socket id, name, stack, owner).
JoinRequests ==
  { [id |-> "s1", name |-> "ann", stack |-> 5, owner |-> TRUE],
    [id |-> "s2", name |-> "bob", stack |-> 3, owner |-> FALSE],
    [id |-> "s3", name |-> "cat", stack |-> 9, owner |-> FALSE] }

Ids == {r.id : r \in JoinRequests}

\* The (smallBlind, bigBlind) pairs handed to setBlinds.
BlindInputs == { <<1, 2>>, <<2, 4>> }

\* The `amount` argument of bet and raise.
Amounts == {0, 4}

Kinds == {"fold", "check", "call", "bet", "raise"}

\* The join request of the k-th guest of SpecFull.
Guest(k) == [id |-> "g" \o ToString(k), name |-> "guest" \o ToString(k),
             stack |-> IF k <= 2 THEN 6 ELSE 2, owner |-> (k = 1)]

\* The kinds of action the guests take.
QuietKinds == {"fold", "check", "call"}

----------------------------------------------------------------------------
(* Helpers *)

Max(a, b) == IF a >= b THEN a ELSE b
Min(a, b) == IF a <= b THEN a ELSE b

SetMax(S) == CHOOSE x \in S : \A y \in S : y <= x
SetMin(S) == CHOOSE x \in S : \A y \in S : x <= y

RECURSIVE SortDesc(_)
\* Array.from(set).sort((a,b)=>b-a)
SortDesc(S) == IF S = {} THEN <<>> ELSE <<SetMax(S)>> \o SortDesc(S \ {SetMax(S)})

RECURSIVE SortAsc(_)
\* sort((a,b)=>a-b) of distinct numbers
SortAsc(S) == IF S = {} THEN <<>> ELSE <<SetMin(S)>> \o SortAsc(S \ {SetMin(S)})

RECURSIVE SumSeq(_)
SumSeq(s) == IF s = <<>> THEN 0 ELSE Head(s) + SumSeq(Tail(s))

Range(s) == {s[i] : i \in DOMAIN s}

Take(s, n) == SubSeq(s, 1, Min(n, Len(s)))

RemoveAt(s, i) == SubSeq(s, 1, i - 1) \o SubSeq(s, i + 1, Len(s))

\* Array.prototype.filter
FilterSeq(s, Keep(_)) ==
  LET F[i \in 0..Len(s)] ==
        IF i = 0 THEN <<>>
        ELSE IF Keep(s[i]) THEN Append(F[i - 1], s[i]) ELSE F[i - 1]
  IN F[Len(s)]

----------------------------------------------------------------------------
(* HandEvaluator.ts *)

\* a count that misses the last of seven cards
countsByRank_firstSix(cards, r) ==
  Cardinality({i \in DOMAIN cards : i <= 6 /\ cards[i].rank = r})

\* countsByRank: how many of the cards have rank r
countsByRank(cards, r) == Cardinality({i \in DOMAIN cards : cards[i].rank = r})

\* isStraight: the loop over the deduplicated, descending ranks (the Ace is
\* appended as 1); k is the 1-based loop index, u[k-3] the top of a run of 5
RECURSIVE StraightLoop(_, _, _, _)
StraightLoop(u, k, run, bestHigh) ==
  IF k > Len(u) - 1 THEN bestHigh
  ELSE IF u[k] = u[k + 1] + 1
       THEN StraightLoop(u, k + 1, run + 1,
                         IF run + 1 >= 5 THEN Max(bestHigh, u[k - 3]) ELSE bestHigh)
       ELSE StraightLoop(u, k + 1, 1, bestHigh)

\* an isStraight in which the ace is never a 1
isStraight_aceHigh(ranks) == StraightLoop(SortDesc(Range(ranks)), 1, 1, 0)

\* isStraight(ranks): top rank of the best straight, 0 for null
isStraight(ranks) ==
  LET u0 == SortDesc(Range(ranks))
      u  == IF 14 \in Range(ranks) THEN Append(u0, 1) ELSE u0
  IN StraightLoop(u, 1, 1, 0)

\* a rank7 whose two-pair kicker is never a card of a third pair
rank7_kickerUnpaired(cards) ==
  LET rankSet   == {cards[i].rank : i \in DOMAIN cards}
      ranksDesc == SortDesc(rankSet)
      suitCards(s) == FilterSeq(cards, LAMBDA c : c.suit = s)
      \* at most one suit can hold 5 of 7 cards
      flushSuits == {s \in Range(SUITS) : Len(suitCards(s)) >= 5}
      hasFlush   == flushSuits # {}
      flushSuit  == CHOOSE s \in flushSuits : TRUE
      flushRanks == SortDesc({c.rank : c \in Range(suitCards(flushSuit))})
      sfHigh     == IF hasFlush THEN isStraight(flushRanks) ELSE 0
      maxCount   == SetMax({countsByRank(cards, r) : r \in rankSet})
      quad       == SetMax({r \in rankSet : countsByRank(cards, r) = 4})
      threes     == SortDesc({r \in rankSet : countsByRank(cards, r) = 3})
      pairs      == SortDesc({r \in rankSet : countsByRank(cards, r) = 2})
      without(S) == SortDesc(rankSet \ S)
      sHigh      == isStraight(ranksDesc)
  IN IF sfHigh # 0 THEN [category |-> 8, tiebreak |-> <<sfHigh>>]
     ELSE IF maxCount = 4
       THEN [category |-> 7, tiebreak |-> <<quad>> \o Take(without({quad}), 1)]
     ELSE IF Len(threes) >= 2 \/ (Len(threes) >= 1 /\ Len(pairs) >= 1)
       THEN [category |-> 6,
             tiebreak |-> <<threes[1], IF Len(threes) >= 2 THEN threes[2] ELSE pairs[1]>>]
     ELSE IF hasFlush THEN [category |-> 5, tiebreak |-> Take(flushRanks, 5)]
     ELSE IF sHigh # 0 THEN [category |-> 4, tiebreak |-> <<sHigh>>]
     ELSE IF Len(threes) >= 1
       THEN [category |-> 3, tiebreak |-> <<threes[1]>> \o Take(without({threes[1]}), 2)]
     ELSE IF Len(pairs) >= 2
       THEN [category |-> 2,
             tiebreak |-> <<pairs[1], pairs[2]>> \o Take(without(Range(pairs)), 1)]
     ELSE IF Len(pairs) = 1
       THEN [category |-> 1, tiebreak |-> <<pairs[1]>> \o Take(without({pairs[1]}), 3)]
     ELSE [category |-> 0, tiebreak |-> Take(ranksDesc, 5)]

\* HandEvaluator.rank7
rank7(cards) ==
  LET rankSet   == {cards[i].rank : i \in DOMAIN cards}
      ranksDesc == SortDesc(rankSet)
      suitCards(s) == FilterSeq(cards, LAMBDA c : c.suit = s)
      \* at most one suit can hold 5 of 7 cards
      flushSuits == {s \in Range(SUITS) : Len(suitCards(s)) >= 5}
      hasFlush   == flushSuits # {}
      flushSuit  == CHOOSE s \in flushSuits : TRUE
      flushRanks == SortDesc({c.rank : c \in Range(suitCards(flushSuit))})
      sfHigh     == IF hasFlush THEN isStraight(flushRanks) ELSE 0
      maxCount   == SetMax({countsByRank(cards, r) : r \in rankSet})
      quad       == SetMax({r \in rankSet : countsByRank(cards, r) = 4})
      threes     == SortDesc({r \in rankSet : countsByRank(cards, r) = 3})
      pairs      == SortDesc({r \in rankSet : countsByRank(cards, r) = 2})
      without(S) == SortDesc(rankSet \ S)
      sHigh      == isStraight(ranksDesc)
  IN IF sfHigh # 0 THEN [category |-> 8, tiebreak |-> <<sfHigh>>]
     ELSE IF maxCount = 4
       THEN [category |-> 7, tiebreak |-> <<quad>> \o Take(without({quad}), 1)]
     ELSE IF Len(threes) >= 2 \/ (Len(threes) >= 1 /\ Len(pairs) >= 1)
       THEN [category |-> 6,
             tiebreak |-> <<threes[1], IF Len(threes) >= 2 THEN threes[2] ELSE pairs[1]>>]
     ELSE IF hasFlush THEN [category |-> 5, tiebreak |-> Take(flushRanks, 5)]
     ELSE IF sHigh # 0 THEN [category |-> 4, tiebreak |-> <<sHigh>>]
     ELSE IF Len(threes) >= 1
       THEN [category |-> 3, tiebreak |-> <<threes[1]>> \o Take(without({threes[1]}), 2)]
     ELSE IF Len(pairs) >= 2
       THEN [category |-> 2,
             tiebreak |-> <<pairs[1], pairs[2]>> \o Take(without({pairs[1], pairs[2]}), 1)]
     ELSE IF Len(pairs) = 1
       THEN [category |-> 1, tiebreak |-> <<pairs[1]>> \o Take(without({pairs[1]}), 3)]
     ELSE [category |-> 0, tiebreak |-> Take(ranksDesc, 5)]

\* the tiebreak comparison loop of resolveShowdown / HandEvaluator.compare:
\* element by element, a missing element read as 0; the sign of the first
\* difference
RECURSIVE cmpTiebreak(_, _, _)
cmpTiebreak(a, b, i) ==
  IF i > Max(Len(a), Len(b)) THEN 0
  ELSE LET x == IF i <= Len(a) THEN a[i] ELSE 0
           y == IF i <= Len(b) THEN b[i] ELSE 0
       IN IF x # y THEN x - y ELSE cmpTiebreak(a, b, i + 1)

----------------------------------------------------------------------------
(* PokerEngine.ts: values *)

Card(r, s) == [rank |-> r, suit |-> s]

\* an ActionLogItem.  Its text is made from a template and the interpolated
\* names, numbers and cards; nothing in the engine reads an entry back, and
\* the log is kept here as the sequence of its entries without their text
\* (the wall-clock `ts` is not modelled either).
LogItem(ev, names, nums, cards) == "entry"

\* state.message: the template and the interpolated names and numbers
Msg(ev, names, nums) == [ev |-> ev, names |-> names, nums |-> nums]

\* the engine object: the fields of class PokerEngine
this == [state |-> state, streetBets |-> streetBets, totalBets |-> totalBets,
         publicReveals |-> publicReveals, revealSeats |-> revealSeats,
         actionLog |-> actionLog]

\* Map.set(k, (Map.get(k) || 0) + v) on a map held as a function
MapAdd(m, k, v) == IF k \in DOMAIN m THEN [m EXCEPT ![k] = @ + v] ELSE m @@ (k :> v)

\* x || d for a number x
NumOr(x, d) == IF x = 0 THEN d ELSE x

\* the loop of makeDeck's Fisher-Yates shuffle, i from 51 down to 1 (0-based
\* positions i and j); x is the state of the generator behind Math.random:
\* each call steps it and returns x/65536, so floor(random*(i+1)) is
\* (x*(i+1)) \div 65536
RECURSIVE ShuffleLoop(_, _, _)
ShuffleLoop(d, i, x) ==
  IF i <= 0 THEN d
  ELSE LET x2 == (25173 * x + 13849) % 65536
           j  == (x2 * (i + 1)) \div 65536
       IN ShuffleLoop([d EXCEPT ![i + 1] = d[j + 1], ![j + 1] = d[i + 1]], i - 1, x2)

\* makeDeck(): the 52 cards suit by suit, then shuffled
makeDeck(seed) ==
  LET d == [k \in 1..52 |-> Card(RANKS[((k - 1) % 13) + 1], SUITS[((k - 1) \div 13) + 1])]
  IN ShuffleLoop(d, 51, seed)

\* the decks the bounded shuffles produce
ShuffledDecks == [seed \in 1..NumSeeds |-> makeDeck(seed)]

\* Array.pop(): the last element, and the array without it
Top(deck) == deck[Len(deck)]
\* a pop() that leaves the card on the deck
Pop_keep(deck) == deck
Pop(deck) == SubSeq(deck, 1, Len(deck) - 1)

\* nextSeat(state, from)
nextSeat(st, from) ==
  LET n == Len(st.players)
      hits == {i \in 1..n : st.players[((from + i) % n) + 1].inHand
                            /\ ~st.players[((from + i) % n) + 1].isAllIn}
  IN IF hits = {} THEN from ELSE (from + SetMin(hits)) % n

----------------------------------------------------------------------------
(* PokerEngine.ts: private helpers *)

\* a log that, once full, keeps its oldest entries and drops the new one
log_dropsNewest(e, item) ==
  [e EXCEPT !.actionLog = IF Len(@) >= LOG_LIMIT THEN @ ELSE Append(@, item)]

\* log(text)
log(e, item) ==
  LET l == Append(e.actionLog, item)
  IN [e EXCEPT !.actionLog = IF Len(l) > LOG_LIMIT
                             THEN SubSeq(l, Len(l) - LOG_LIMIT + 1, Len(l)) ELSE l]

\* resetReveals()
resetReveals(e) == [e EXCEPT !.publicReveals = <<>>, !.revealSeats = {}]

\* a payment entered in the street ledger only
commitChips_streetOnly(e, seat, amount) ==
  LET p   == e.state.players[seat + 1]
      pay == Max(0, Min(amount, p.stack))
  IN IF pay <= 0 THEN [this |-> e, ret |-> 0]
     ELSE [this |-> [e EXCEPT !.state.players[seat + 1].stack = @ - pay,
                              !.state.players[seat + 1].isAllIn =
                                  IF p.stack - pay = 0 THEN TRUE ELSE @,
                              !.state.pot = @ + pay,
                              !.streetBets[seat + 1] = @ + pay],
           ret |-> pay]

\* a payment of the whole amount asked, whatever the stack
commitChips_unbounded(e, seat, amount) ==
  IF amount <= 0 THEN [this |-> e, ret |-> 0]
  ELSE [this |-> [e EXCEPT !.state.players[seat + 1].stack = @ - amount,
                           !.state.players[seat + 1].isAllIn =
                               IF e.state.players[seat + 1].stack - amount = 0 THEN TRUE ELSE @,
                           !.state.pot = @ + amount,
                           !.streetBets[seat + 1] = @ + amount,
                           !.totalBets[seat + 1] = @ + amount],
        ret |-> amount]

\* commitChips(seat, amount): the engine after the payment and the amount paid
commitChips(e, seat, amount) ==
  LET p   == e.state.players[seat + 1]
      pay == Max(0, Min(amount, p.stack))
  IN IF pay <= 0 THEN [this |-> e, ret |-> 0]
     ELSE [this |-> [e EXCEPT !.state.players[seat + 1].stack = @ - pay,
                              !.state.players[seat + 1].isAllIn =
                                  IF p.stack - pay = 0 THEN TRUE ELSE @,
                              !.state.pot = @ + pay,
                              !.streetBets[seat + 1] = @ + pay,
                              !.totalBets[seat + 1] = @ + pay],
           ret |-> pay]

\* a loop that puts one contributor's share of the layer in each pot
RECURSIVE SidePotLoop_oneShare(_, _, _)
SidePotLoop_oneShare(e, remain, pots) ==
  LET n == Len(e.state.players)
      contributors == FilterSeq([i \in 1..n |-> i - 1], LAMBDA i : remain[i + 1] > 0)
  IN IF contributors = <<>> THEN pots
     ELSE LET layer  == SetMin({remain[i + 1] : i \in Range(contributors)})
              rest   == [k \in 1..Len(remain) |->
                           IF k - 1 \in Range(contributors) THEN remain[k] - layer
                           ELSE remain[k]]
              eligibleSeats == FilterSeq(contributors,
                                         LAMBDA i : e.state.players[i + 1].inHand)
          IN SidePotLoop_oneShare(e, rest,
                         Append(pots, [amount |-> layer, eligibleSeats |-> eligibleSeats]))

\* the while loop of buildSidePots over the remaining contributions
RECURSIVE SidePotLoop(_, _, _)
SidePotLoop(e, remain, pots) ==
  LET n == Len(e.state.players)
      contributors == FilterSeq([i \in 1..n |-> i - 1], LAMBDA i : remain[i + 1] > 0)
  IN IF contributors = <<>> THEN pots
     ELSE LET layer  == SetMin({remain[i + 1] : i \in Range(contributors)})
              amount == layer * Len(contributors)
              rest   == [k \in 1..Len(remain) |->
                           IF k - 1 \in Range(contributors) THEN remain[k] - layer
                           ELSE remain[k]]
              eligibleSeats == FilterSeq(contributors,
                                         LAMBDA i : e.state.players[i + 1].inHand)
          IN SidePotLoop(e, rest,
                         IF amount > 0
                         THEN Append(pots, [amount |-> amount, eligibleSeats |-> eligibleSeats])
                         ELSE pots)

\* one pot of all the chips, open to every player still in the hand
buildSidePots_single(e) ==
  IF Len(e.state.players) = 0 THEN <<>>
  ELSE << [amount |-> SumSeq(e.totalBets),
           eligibleSeats |-> FilterSeq([i \in 1..Len(e.state.players) |-> i - 1],
                                       LAMBDA i : e.state.players[i + 1].inHand)] >>

\* buildSidePots()
buildSidePots(e) ==
  IF Len(e.state.players) = 0 THEN <<>>
  ELSE SidePotLoop(e, [k \in 1..Len(e.totalBets) |-> Max(0, e.totalBets[k])], <<>>)

----------------------------------------------------------------------------
(* PokerEngine.ts: the public operations *)

\* setBlinds(sb, bb)
setBlinds(e, sb, bb) ==
  LET s == Max(1, NumOr(sb, 1))
      b == Max(s, NumOr(bb, 2))
  IN [e EXCEPT !.state.smallBlind = s, !.state.bigBlind = b, !.state.minRaise = b]

\* hasPlayer(id)
hasPlayer(e, id) == \E i \in DOMAIN e.state.players : e.state.players[i].id = id

\* players.findIndex(p => p.id === id), 0-based, -1 when absent
findIndex(e, id) ==
  IF hasPlayer(e, id)
  THEN SetMin({i \in DOMAIN e.state.players : e.state.players[i].id = id}) - 1
  ELSE -1

\* an addPlayer that does not look at the names of the seated players
addPlayer_anyName(e, id, name, stack, owner) ==
  IF Len(e.state.players) >= MAX_PLAYERS THEN [this |-> e, ret |-> FALSE]
  ELSE LET seat == Len(e.state.players)
           p == [id |-> id, name |-> name, stack |-> Max(1, stack), seat |-> seat,
                 hole |-> <<>>, inHand |-> TRUE, hasActedThisRound |-> FALSE,
                 isAllIn |-> FALSE, isOwner |-> owner]
           e1 == [e EXCEPT !.state.players = Append(@, p),
                           !.streetBets = Append(@, 0),
                           !.totalBets = Append(@, 0)]
       IN [this |-> log(e1, LogItem("Joined", <<name>>, <<seat + 1, stack>>, <<>>)),
           ret |-> TRUE]

\* addPlayer(id, name, stack, owner)
addPlayer(e, id, name, stack, owner) ==
  IF Len(e.state.players) >= MAX_PLAYERS THEN [this |-> e, ret |-> FALSE]
  ELSE IF \E i \in DOMAIN e.state.players : e.state.players[i].name = name
    THEN [this |-> e, ret |-> FALSE]
  ELSE LET seat == Len(e.state.players)
           p == [id |-> id, name |-> name, stack |-> Max(1, stack), seat |-> seat,
                 hole |-> <<>>, inHand |-> TRUE, hasActedThisRound |-> FALSE,
                 isAllIn |-> FALSE, isOwner |-> owner]
           e1 == [e EXCEPT !.state.players = Append(@, p),
                           !.streetBets = Append(@, 0),
                           !.totalBets = Append(@, 0)]
       IN [this |-> log(e1, LogItem("Joined", <<name>>, <<seat + 1, stack>>, <<>>)),
           ret |-> TRUE]

\* a removePlayer that shortens the ledgers at their end
removePlayer_lastEntry(e, id) ==
  LET idx == findIndex(e, id) IN
  IF idx = -1 THEN e
  ELSE LET p == e.state.players[idx + 1]
           left == RemoveAt(e.state.players, idx + 1)
           e1 == [e EXCEPT !.state.players =
                               [i \in 1..Len(left) |-> [left[i] EXCEPT !.seat = i - 1]],
                           !.streetBets = RemoveAt(@, Len(@)),
                           !.totalBets = RemoveAt(@, Len(@))]
           e2 == log(e1, LogItem("Left", <<p.name>>, <<>>, <<>>))
       IN IF Len(left) = 0 THEN [e2 EXCEPT !.state.stage = "waiting"] ELSE e2

\* removePlayer(id)
removePlayer(e, id) ==
  LET idx == findIndex(e, id) IN
  IF idx = -1 THEN e
  ELSE LET p == e.state.players[idx + 1]
           left == RemoveAt(e.state.players, idx + 1)
           e1 == [e EXCEPT !.state.players =
                               [i \in 1..Len(left) |-> [left[i] EXCEPT !.seat = i - 1]],
                           !.streetBets = RemoveAt(@, idx + 1),
                           !.totalBets = RemoveAt(@, idx + 1)]
           e2 == log(e1, LogItem("Left", <<p.name>>, <<>>, <<>>))
       IN IF Len(left) = 0 THEN [e2 EXCEPT !.state.stage = "waiting"] ELSE e2

\* the dealing loop of startHand: two cards popped for each in-hand player,
\* in seat order
RECURSIVE DealLoop(_, _, _)
DealLoop(ps, deck, i) ==
  IF i > Len(ps) THEN [players |-> ps, deck |-> deck]
  ELSE IF ~ps[i].inHand THEN DealLoop(ps, deck, i + 1)
  ELSE DealLoop([ps EXCEPT ![i].hole = <<Top(deck), Top(Pop(deck))>>],
                Pop(Pop(deck)), i + 1)

\* a blind that is announced and never paid
postBlind_none(e, seat, amount) == e

\* postBlind(seat, amount)
postBlind(e, seat, amount) ==
  LET r == commitChips(e, seat, amount)
  IN log(r.this, LogItem("posts", <<e.state.players[seat + 1].name>>, <<r.ret>>, <<>>))

\* a refusal that also abandons the hand in progress
needPlayers_abandons(e) ==
  [e EXCEPT !.state.message = Msg("Need 2+ players", <<>>, <<>>),
            !.state.pot = 0, !.state.stage = "waiting"]

\* startHand() with fewer than two players seated
needPlayers(e) == [e EXCEPT !.state.message = Msg("Need 2+ players", <<>>, <<>>)]

\* startHand(), the shuffle started from `seed`
startHand(e, seed) ==
  LET n == Len(e.state.players) IN
  IF n < 2 THEN needPlayers(e)
  ELSE
    LET ps1 == [i \in 1..n |->
                  [e.state.players[i] EXCEPT !.inHand = (e.state.players[i].stack > 0),
                                             !.isAllIn = FALSE,
                                             !.hasActedThisRound = FALSE,
                                             !.hole = <<>>]]
        dealer == (e.state.dealerSeat + 1) % n
        dealt  == DealLoop(ps1, ShuffledDecks[seed], 1)
        e1 == [resetReveals(e) EXCEPT
                 !.state.deck = dealt.deck,
                 !.state.community = <<>>,
                 !.state.pot = 0,
                 !.state.stage = "preflop",
                 !.state.currentBet = 0,
                 !.state.minRaise = e.state.bigBlind,
                 !.state.players = dealt.players,
                 !.state.lastWinners = <<>>,
                 !.streetBets = [i \in 1..n |-> 0],
                 !.totalBets = [i \in 1..n |-> 0],
                 !.state.pots = <<>>,
                 !.state.dealerSeat = dealer]
        sbSeat == (dealer + 1) % n
        bbSeat == (dealer + 2) % n
        e2 == postBlind(e1, sbSeat, e1.state.smallBlind)
        e3 == postBlind(e2, bbSeat, e2.state.bigBlind)
        e4 == [e3 EXCEPT !.state.currentBet = e3.state.bigBlind,
                         !.state.turnSeat = (dealer + 3) % n,
                         !.state.lastAggressorSeat = bbSeat,
                         !.state.message = Msg("New hand", <<>>, <<>>)]
    IN log(e4, LogItem("New hand",
                       <<e4.state.players[dealer + 1].name, e4.state.players[sbSeat + 1].name>>,
                       <<e4.state.smallBlind, e4.state.bigBlind>>, <<>>))

\* a closure test that looks at the contributions only, not at who has acted
everyoneActedOrAllIn_matched(e) ==
  \A i \in DOMAIN e.state.players :
    (e.state.players[i].inHand /\ ~e.state.players[i].isAllIn) =>
       e.streetBets[i] >= e.state.currentBet

\* everyoneActedOrAllIn()
everyoneActedOrAllIn(e) ==
  \A i \in DOMAIN e.state.players :
    LET p == e.state.players[i] IN
    (p.inHand /\ ~p.isAllIn) =>
       (p.hasActedThisRound /\ e.streetBets[p.seat + 1] >= e.state.currentBet)

\* activeCount()
activeCount(e) == Cardinality({i \in DOMAIN e.state.players : e.state.players[i].inHand})

----------------------------------------------------------------------------
(* PokerEngine.ts: showdown *)

\* a scan that keeps only the first of the seats tied for the best hand
RECURSIVE BestLoop_firstOfTied(_, _, _, _)
BestLoop_firstOfTied(elig, rankBySeat, i, best) ==
  IF i > Len(elig) THEN best
  ELSE BestLoop_firstOfTied(elig, rankBySeat, i + 1,
         IF best.seats = <<>> \/ rankBySeat[elig[i]].category > best.r.category
              \/ (rankBySeat[elig[i]].category = best.r.category
                    /\ cmpTiebreak(rankBySeat[elig[i]].tiebreak, best.r.tiebreak, 1) > 0)
         THEN [r |-> rankBySeat[elig[i]], seats |-> <<elig[i]>>]
         ELSE best)

\* the scan of resolveShowdown over one pot's eligible seats: `best` holds
\* bestR (meaningful once bestSeats is not empty) and bestSeats
RECURSIVE BestLoop(_, _, _, _)
BestLoop(elig, rankBySeat, i, best) ==
  IF i > Len(elig) THEN best
  ELSE LET s == elig[i]
           r == rankBySeat[s]
           take == [r |-> r, seats |-> <<s>>]
       IN BestLoop(elig, rankBySeat, i + 1,
            IF best.seats = <<>> \/ r.category > best.r.category THEN take
            ELSE IF r.category = best.r.category
              THEN LET cmp == cmpTiebreak(r.tiebreak, best.r.tiebreak, 1)
                   IN IF cmp > 0 THEN take
                      ELSE IF cmp = 0 THEN [best EXCEPT !.seats = Append(@, s)]
                      ELSE best
            ELSE best)

\* the share loop: every winner of the pot gets floor(amount / winners)
RECURSIVE ShareLoop(_, _, _, _)
ShareLoop(won, seats, share, i) ==
  IF i > Len(seats) THEN won
  ELSE ShareLoop(MapAdd(won, seats[i], share), seats, share, i + 1)

\* a remainder loop that hands every left-over chip to the lowest seat
RECURSIVE RemainderLoop_toFirst(_, _, _, _)
RemainderLoop_toFirst(won, sorted, remainder, idx) ==
  IF remainder <= 0 THEN won
  ELSE RemainderLoop_toFirst(MapAdd(won, sorted[1], 1), sorted, remainder - 1, idx + 1)

\* the remainder loop: one chip at a time over the winners in ascending seat
\* order; idx is the 0-based counter of the code
RECURSIVE RemainderLoop(_, _, _, _)
RemainderLoop(won, sorted, remainder, idx) ==
  IF remainder <= 0 THEN won
  ELSE RemainderLoop(MapAdd(won, sorted[(idx % Len(sorted)) + 1], 1),
                     sorted, remainder - 1, idx + 1)

\* the loop of resolveShowdown over the side pots: wonBySeat after pot i..
RECURSIVE PotLoop(_, _, _, _)
PotLoop(pots, rankBySeat, i, won) ==
  IF i > Len(pots) THEN won
  ELSE LET pot  == pots[i]
           elig == FilterSeq(pot.eligibleSeats, LAMBDA seat : seat \in DOMAIN rankBySeat)
       IN IF elig = <<>> THEN PotLoop(pots, rankBySeat, i + 1, won)
          ELSE LET bestSeats == BestLoop(elig, rankBySeat, 1, [r |-> <<>>, seats |-> <<>>]).seats
                   share     == pot.amount \div Len(bestSeats)
                   remainder == pot.amount - share * Len(bestSeats)
                   won1      == ShareLoop(won, bestSeats, share, 1)
                   won2      == RemainderLoop(won1, SortAsc(Range(bestSeats)), remainder, 0)
               IN PotLoop(pots, rankBySeat, i + 1, won2)

\* winnersList.sort((a,b)=> b.amount - a.amount || a.seat - b.seat)
RECURSIVE SortWinners(_)
SortWinners(W) ==
  IF W = {} THEN <<>>
  ELSE LET first == CHOOSE w \in W : \A v \in W :
                       w.amount > v.amount \/ (w.amount = v.amount /\ w.seat <= v.seat)
       IN <<first>> \o SortWinners(W \ {first})

\* resolveShowdown(), one contender: the whole pot, no ranking
showdownUncontested(e, winner, amount) ==
  LET e1 == [e EXCEPT !.state.players[winner.seat + 1].stack = @ + amount,
                      !.state.pot = 0,
                      !.state.message = Msg("wins (everyone folded)", <<winner.name>>, <<>>),
                      !.state.stage = "showdown",
                      !.state.turnSeat = -1,
                      !.revealSeats = @ \cup {winner.seat},
                      !.state.lastWinners =
                          <<[seat |-> winner.seat, name |-> winner.name,
                             amount |-> amount, category |-> NULL]>>]
      e2 == log(e1, LogItem("Win (uncontested)", <<winner.name>>, <<amount>>, <<>>))
  IN [e2 EXCEPT !.state.pots = buildSidePots(e1)]

\* a showdown that offers the choice to show or muck to the winners too
showdownPublish_allMayShow(e, contenderSeats, pots, wonBySeat, winnersList) ==
  LET winnerSeats == DOMAIN wonBySeat
      ps == e.state.players
      paid == [i \in 1..Len(ps) |->
                 IF i - 1 \in winnerSeats
                 THEN [ps[i] EXCEPT !.stack = @ + wonBySeat[i - 1]] ELSE ps[i]]
      names == [i \in 1..Len(winnersList) |-> winnersList[i].name]
      e1 == [e EXCEPT !.state.players = paid,
                      !.publicReveals =
                          [s \in {w \in winnerSeats : ps[w + 1].hole # <<>>} |-> ps[s + 1].hole],
                      !.revealSeats = contenderSeats,
                      !.state.message =
                          IF Len(winnersList) = 1
                          THEN Msg("Winner", names, <<winnersList[1].amount>>)
                          ELSE Msg("Winners", names, <<>>),
                      !.state.lastWinners = winnersList,
                      !.state.stage = "showdown",
                      !.state.turnSeat = -1,
                      !.state.pot = 0,
                      !.state.pots = pots]
  IN log(e1, LogItem("Showdown", names,
                     [i \in 1..Len(winnersList) |-> winnersList[i].amount], <<>>))

\* resolveShowdown(), the end of the full showdown: the winnings are credited,
\* the winners' cards revealed, the other contenders offered the choice
showdownPublish(e, contenderSeats, pots, wonBySeat, winnersList) ==
  LET winnerSeats == DOMAIN wonBySeat
      ps == e.state.players
      paid == [i \in 1..Len(ps) |->
                 IF i - 1 \in winnerSeats
                 THEN [ps[i] EXCEPT !.stack = @ + wonBySeat[i - 1]] ELSE ps[i]]
      names == [i \in 1..Len(winnersList) |-> winnersList[i].name]
      e1 == [e EXCEPT !.state.players = paid,
                      !.publicReveals =
                          [s \in {w \in winnerSeats : ps[w + 1].hole # <<>>} |-> ps[s + 1].hole],
                      !.revealSeats = contenderSeats \ winnerSeats,
                      !.state.message =
                          IF Len(winnersList) = 1
                          THEN Msg("Winner", names, <<winnersList[1].amount>>)
                          ELSE Msg("Winners", names, <<>>),
                      !.state.lastWinners = winnersList,
                      !.state.stage = "showdown",
                      !.state.turnSeat = -1,
                      !.state.pot = 0,
                      !.state.pots = pots]
  IN log(e1, LogItem("Showdown", names,
                     [i \in 1..Len(winnersList) |-> winnersList[i].amount], <<>>))

\* resolveShowdown(), the payout of the side pots to the ranked contenders
showdownPay(e, rankBySeat, pots, wonBySeat) ==
  showdownPublish(e, DOMAIN rankBySeat, pots, wonBySeat,
                  SortWinners({[seat |-> s,
                                name |-> e.state.players[s + 1].name,
                                amount |-> wonBySeat[s],
                                category |-> rankBySeat[s].category]
                               : s \in DOMAIN wonBySeat}))

\* resolveShowdown(), two or more contenders (or none): every contender ranked
\* once, the side pots built, each pot paid to its best eligible hands
showdownFull(e, rankBySeat, pots) ==
  showdownPay(e, rankBySeat, pots, PotLoop(pots, rankBySeat, 1, <<>>))

\* resolveShowdown()
resolveShowdown(e) ==
  LET contenders == FilterSeq(e.state.players, LAMBDA p : p.inHand /\ p.hole # <<>>)
  IN IF Len(contenders) = 1
     THEN showdownUncontested(resetReveals(e), contenders[1], e.state.pot)
     ELSE showdownFull(resetReveals(e),
                       [s \in {p.seat : p \in Range(contenders)} |->
                          rank7(e.state.community \o e.state.players[s + 1].hole)],
                       buildSidePots(e))

\* the cards advanceStage draws: one burnt, then `k` revealed
Reveal(deck, k) == [i \in 1..k |-> deck[Len(deck) - i]]

\* a street dealt without burning a card
dealStreet_noBurn(e, k, stage, ev) ==
  log([e EXCEPT !.state.deck = SubSeq(@, 1, Len(@) - k),
                !.state.community = @ \o [i \in 1..k |-> e.state.deck[Len(e.state.deck) + 1 - i]],
                !.state.stage = stage,
                !.state.message = Msg("Next street", <<>>, <<>>),
                !.state.turnSeat = nextSeat([e.state EXCEPT !.stage = stage], e.state.dealerSeat)],
      LogItem(ev, <<>>, <<>>, <<>>))

\* advanceStage(), entering flop, turn or river: one card burnt, k revealed,
\* the turn handed to the first in-hand, not all-in seat after the dealer
dealStreet(e, k, stage, ev) ==
  LET deck == e.state.deck
      e2 == [e EXCEPT !.state.deck = SubSeq(deck, 1, Len(deck) - (k + 1)),
                      !.state.community = @ \o Reveal(deck, k),
                      !.state.stage = stage,
                      !.state.message = Msg("Next street", <<>>, <<>>)]
  IN log([e2 EXCEPT !.state.turnSeat = nextSeat(e2.state, e.state.dealerSeat)],
         LogItem(ev, <<>>, <<>>, Reveal(deck, k)))

\* an advanceStage that goes from the flop straight to the river
nextStage_skipsTurn(e) ==
  CASE e.state.stage = "preflop" -> dealStreet(e, 3, "flop", "Flop")
    [] e.state.stage = "flop"    -> dealStreet(e, 1, "river", "River")
    [] e.state.stage = "river"   -> resolveShowdown([e EXCEPT !.state.stage = "showdown"])
    [] OTHER -> [e EXCEPT !.state.message = Msg("Next street", <<>>, <<>>)]

\* an advanceStage that ends the hand after the turn, without a river card
nextStage_noRiver(e) ==
  CASE e.state.stage = "preflop" -> dealStreet(e, 3, "flop", "Flop")
    [] e.state.stage = "flop"    -> dealStreet(e, 1, "turn", "Turn")
    [] e.state.stage \in {"turn", "river"} ->
          resolveShowdown([e EXCEPT !.state.stage = "showdown"])
    [] OTHER -> [e EXCEPT !.state.message = Msg("Next street", <<>>, <<>>)]

\* advanceStage(), after the reset of the round
nextStage(e) ==
  CASE e.state.stage = "preflop" -> dealStreet(e, 3, "flop", "Flop")
    [] e.state.stage = "flop"    -> dealStreet(e, 1, "turn", "Turn")
    [] e.state.stage = "turn"    -> dealStreet(e, 1, "river", "River")
    [] e.state.stage = "river"   -> resolveShowdown([e EXCEPT !.state.stage = "showdown"])
    [] OTHER -> [e EXCEPT !.state.message = Msg("Next street", <<>>, <<>>)]

\* advanceStage()
advanceStage(e) ==
  nextStage([e EXCEPT !.state.players =
                          [i \in 1..Len(e.state.players) |->
                             [e.state.players[i] EXCEPT !.hasActedThisRound = FALSE]],
                      !.state.currentBet = 0,
                      !.state.minRaise = e.state.bigBlind,
                      !.streetBets = [i \in 1..Len(e.state.players) |-> 0]])

----------------------------------------------------------------------------
(* PokerEngine.ts: show / muck *)

\* canReveal(id)
canReveal(e, id) ==
  /\ hasPlayer(e, id)
  /\ e.state.stage = "showdown"
  /\ findIndex(e, id) \in e.revealSeats

\* doShow(id)
doShow(e, id) ==
  IF ~hasPlayer(e, id) \/ ~canReveal(e, id) THEN [this |-> e, ret |-> FALSE]
  ELSE LET p == e.state.players[findIndex(e, id) + 1]
           e1 == [e EXCEPT !.publicReveals =
                               IF p.hole # <<>>
                               THEN [s \in DOMAIN @ \cup {p.seat} |->
                                       IF s = p.seat THEN p.hole ELSE @[s]]
                               ELSE @,
                           !.revealSeats = @ \ {p.seat}]
       IN [this |-> log(e1, LogItem("shows", <<p.name>>, <<>>, <<>>)), ret |-> TRUE]

\* doMuck(id)
doMuck(e, id) ==
  IF ~hasPlayer(e, id) \/ ~canReveal(e, id) THEN [this |-> e, ret |-> FALSE]
  ELSE LET p == e.state.players[findIndex(e, id) + 1]
           e1 == [e EXCEPT !.publicReveals = [s \in DOMAIN @ \ {p.seat} |-> @[s]],
                           !.revealSeats = @ \ {p.seat}]
       IN [this |-> log(e1, LogItem("mucks", <<p.name>>, <<>>, <<>>)), ret |-> TRUE]

----------------------------------------------------------------------------
(* PokerEngine.ts: playerAction *)

\* a bet or raise after which the players who had acted need not act again
reopenRound_keeps(e, seat) == e

\* players.forEach(p => { if (p.seat !== actor.seat && p.inHand && !p.isAllIn)
\*                          p.hasActedThisRound = false; })
reopenRound(e, seat) ==
  [e EXCEPT !.state.players =
     [i \in 1..Len(e.state.players) |->
        IF e.state.players[i].seat # seat /\ e.state.players[i].inHand
                                          /\ ~e.state.players[i].isAllIn
        THEN [e.state.players[i] EXCEPT !.hasActedThisRound = FALSE]
        ELSE e.state.players[i]]]

\* "Move turn / advance street", the tail of playerAction
moveTurn(e) ==
  IF e.state.stage \in BettingStages
  THEN IF everyoneActedOrAllIn(e) THEN advanceStage(e)
       ELSE [e EXCEPT !.state.turnSeat = nextSeat(e.state, e.state.turnSeat)]
  ELSE e

\* no minimum raise increment
raiseStep_none(e) == 0

\* const minRaise = this.state.bigBlind
raiseStep(e) == e.state.bigBlind

\* the policy of the other revision of the engine: minRaise follows the size
\* of the last raise
minRaiseAfter_lastRaise(e, prev) == Max(e.state.minRaise, e.state.currentBet - prev)

\* this.state.minRaise = this.state.bigBlind, in the bet and raise branches
minRaiseAfter(e, prev) == e.state.bigBlind

\* A branch of playerAction gives the engine it leaves, and either returns a
\* value (returned) or falls through to the tail.
refusedBy(e) == [this |-> e, ret |-> FALSE, returned |-> TRUE]

\* actor.hasActedThisRound = true; this.log(...)
actedBy(e, seat, ev, nums) ==
  [this |-> log([e EXCEPT !.state.players[seat + 1].hasActedThisRound = TRUE],
                LogItem(ev, <<e.state.players[seat + 1].name>>, nums, <<>>)),
   ret |-> TRUE, returned |-> FALSE]

\* the fold branch when one player is left in the hand: winner is that player
foldToOne(e, winner, amount) ==
  LET e1 == [resetReveals(e) EXCEPT
               !.state.players[winner.seat + 1].stack = @ + amount,
               !.state.pot = 0,
               !.state.message = Msg("wins (everyone folded)", <<winner.name>>, <<>>),
               !.state.stage = "showdown",
               !.state.turnSeat = -1,
               !.revealSeats = {winner.seat},
               !.state.lastWinners =
                   <<[seat |-> winner.seat, name |-> winner.name,
                      amount |-> amount, category |-> NULL]>>]
      e2 == log(e1, LogItem("Win (uncontested)", <<winner.name>>, <<amount>>, <<>>))
  IN [e2 EXCEPT !.state.pots = buildSidePots(e2)]

\* a fold branch that never ends the hand
afterFold_playsOn(r) == r

\* the fold branch after the fold is recorded
afterFold(r) ==
  IF activeCount(r.this) = 1
  THEN [this |-> foldToOne(r.this,
                           r.this.state.players[
                             SetMin({i \in DOMAIN r.this.state.players :
                                       r.this.state.players[i].inHand})],
                           r.this.state.pot),
        ret |-> TRUE, returned |-> TRUE]
  ELSE r

\* the fold branch
doFold(e, seat) ==
  afterFold(actedBy([e EXCEPT !.state.players[seat + 1].inHand = FALSE],
                    seat, "Fold", <<>>))

\* a check branch that ignores what the player owes
doCheck_owing(e, seat, toCall) == actedBy(e, seat, "Check", <<>>)

\* the check branch
doCheck(e, seat, toCall) ==
  IF toCall # 0 THEN refusedBy(e) ELSE actedBy(e, seat, "Check", <<>>)

\* the call branch after commitChips
callPaid(r, seat) ==
  IF r.ret <= 0 THEN refusedBy(r.this) ELSE actedBy(r.this, seat, "Call", <<r.ret>>)

\* the call branch
doCall(e, seat, toCall) ==
  IF toCall <= 0 THEN refusedBy(e) ELSE callPaid(commitChips(e, seat, toCall), seat)

\* a bet or a raise that lifts the bet to match: currentBet, minRaise and
\* lastAggressorSeat are set and the other players have to act again
aggress(e, seat) ==
  LET x == [e EXCEPT !.state.currentBet = Max(@, e.streetBets[seat + 1]),
                     !.state.lastAggressorSeat = seat]
  IN reopenRound([x EXCEPT !.state.minRaise = minRaiseAfter(x, e.state.currentBet)], seat)

\* this.log(`${actor.name}: Bet ${this.state.currentBet}`), and the same for Raise
actedTo(e, seat, ev) == actedBy(e, seat, ev, <<e.state.currentBet>>)

\* the bet branch after commitChips
betPaid(r, seat) ==
  IF r.ret <= 0 THEN refusedBy(r.this) ELSE actedTo(aggress(r.this, seat), seat, "Bet")

\* the bet branch
doBet(e, seat, contributed, desired) ==
  IF e.state.currentBet # 0 \/ desired <= 0 THEN refusedBy(e)
  ELSE betPaid(commitChips(e, seat, Max(0, desired - contributed)), seat)

\* a raise branch that never lifts currentBet to the raiser's contribution
raisePaid_noLift(r, seat) ==
  IF r.ret <= 0 THEN refusedBy(r.this) ELSE actedTo(r.this, seat, "Raise")

\* a raise branch in which an all-in for less reopens the round as well
raisePaid_alwaysLifts(r, seat) ==
  IF r.ret <= 0 THEN refusedBy(r.this) ELSE actedTo(aggress(r.this, seat), seat, "Raise")

\* the raise branch after commitChips
raisePaid(r, seat) ==
  IF r.ret <= 0 THEN refusedBy(r.this)
  ELSE IF r.this.streetBets[seat + 1] > r.this.state.currentBet
       THEN actedTo(aggress(r.this, seat), seat, "Raise")
       ELSE actedTo(r.this, seat, "Raise")

\* the raise branch
doRaise(e, seat, contributed, raiseTo) ==
  IF raiseTo <= e.state.currentBet THEN refusedBy(e)
  ELSE raisePaid(commitChips(e, seat, Max(0, raiseTo - contributed)), seat)

\* the branches of playerAction, for the player at `seat` whose turn it is
actionBranch(e, seat, kind, amount) ==
  CASE kind = "fold"  -> doFold(e, seat)
    [] kind = "check" -> doCheck(e, seat, Max(0, e.state.currentBet - e.streetBets[seat + 1]))
    [] kind = "call"  -> doCall(e, seat, Max(0, e.state.currentBet - e.streetBets[seat + 1]))
    [] kind = "bet"   -> doBet(e, seat, e.streetBets[seat + 1], Max(e.state.bigBlind, amount))
    [] kind = "raise" -> doRaise(e, seat, e.streetBets[seat + 1],
                                 Max(e.state.currentBet + raiseStep(e), amount))
    [] OTHER -> [this |-> e, ret |-> TRUE, returned |-> FALSE]

\* the end of playerAction: a branch that has not returned moves the turn
actionTail(r) ==
  IF r.returned THEN [this |-> r.this, ret |-> r.ret]
  ELSE [this |-> moveTurn(r.this), ret |-> TRUE]

\* the guards of playerAction without the !actor.isAllIn test
mayAct_allInActs(e, id) ==
  /\ e.state.stage \in BettingStages
  /\ e.state.turnSeat >= 0
  /\ e.state.turnSeat < Len(e.state.players)
  /\ e.state.players[e.state.turnSeat + 1].id = id
  /\ e.state.players[e.state.turnSeat + 1].inHand

\* the guards of playerAction: the stage, the seat to act, its player
mayAct(e, id) ==
  /\ e.state.stage \in BettingStages
  /\ e.state.turnSeat >= 0
  /\ e.state.turnSeat < Len(e.state.players)
  /\ e.state.players[e.state.turnSeat + 1].id = id
  /\ e.state.players[e.state.turnSeat + 1].inHand
  /\ ~e.state.players[e.state.turnSeat + 1].isAllIn

\* playerAction(id, kind, amount): the engine after the call and the returned
\* boolean
playerAction(e, id, kind, amount) ==
  IF ~mayAct(e, id) THEN [this |-> e, ret |-> FALSE]
  ELSE actionTail(actionBranch(e, e.state.players[e.state.turnSeat + 1].seat, kind, amount))

----------------------------------------------------------------------------
(* PokerEngine.ts: views *)

\* a player entry that carries the hole cards themselves as publicHole
playerView_showsHole(e, p) ==
  [id |-> p.id, name |-> p.name, stack |-> p.stack, seat |-> p.seat,
   inHand |-> p.inHand, hasActedThisRound |-> p.hasActedThisRound,
   isAllIn |-> p.isAllIn, isOwner |-> p.isOwner,
   holeCount |-> Len(p.hole),
   publicHole |-> p.hole]

\* getBroadcastView(), the entry of one player: the hole cards are replaced by
\* their number and by what is publicly revealed for the seat (<<>> for
\* undefined)
playerView(e, p) ==
  [id |-> p.id, name |-> p.name, stack |-> p.stack, seat |-> p.seat,
   inHand |-> p.inHand, hasActedThisRound |-> p.hasActedThisRound,
   isAllIn |-> p.isAllIn, isOwner |-> p.isOwner,
   holeCount |-> Len(p.hole),
   publicHole |-> IF p.seat \in DOMAIN e.publicReveals THEN e.publicReveals[p.seat] ELSE <<>>]

\* getBroadcastView(): the state without deck and players, then the side pots,
\* the player entries, the reveal seats, the last winners and the log
getBroadcastView(e) ==
  [pots |-> buildSidePots(e),
   players |-> [i \in 1..Len(e.state.players) |-> playerView(e, e.state.players[i])],
   revealSeats |-> e.revealSeats,
   lastWinners |-> e.state.lastWinners,
   actionLog |-> e.actionLog]
  @@ [f \in DOMAIN e.state \ {"deck", "players"} |-> e.state[f]]

\* getClientView(requestorId): the broadcast view with the requestor's hole
\* cards added to the requestor's entry
getClientView(e, requestorId) ==
  LET pv == getBroadcastView(e) IN
  IF hasPlayer(e, requestorId) /\ e.state.players[findIndex(e, requestorId) + 1].hole # <<>>
  THEN [f \in DOMAIN pv |->
          IF f = "players"
          THEN [i \in 1..Len(pv.players) |->
                  IF pv.players[i].id = requestorId
                  THEN [hole |-> e.state.players[findIndex(e, requestorId) + 1].hole]
                         @@ pv.players[i]
                  ELSE pv.players[i]]
          ELSE pv[f]]
  ELSE pv

----------------------------------------------------------------------------
(* The state machine *)

\* no hand has been ranked
Unranked == [category |-> NULL, tiebreak |-> <<>>]

\* new PokerEngine(code)
Init ==
  /\ state = [stage |-> "waiting", players |-> <<>>, dealerSeat |-> 0,
              smallBlind |-> 1, bigBlind |-> 2, currentBet |-> 0, minRaise |-> 2,
              pot |-> 0, community |-> <<>>, turnSeat |-> 0, deck |-> <<>>,
              lastAggressorSeat |-> NULL, message |-> Msg("", <<>>, <<>>),
              lastWinners |-> <<>>, pots |-> <<>>]
  /\ streetBets = <<>>
  /\ totalBets = <<>>
  /\ publicReveals = <<>>
  /\ revealSeats = {}
  /\ actionLog = <<>>
  /\ bought = 0
  /\ hands = 0
  /\ acts = 0
  /\ lastCall = [op |-> "new", id |-> "", kind |-> "", amount |-> 0, ok |-> TRUE]
  /\ gone = {}
  /\ view = <<>>
  /\ chosen = {}
  /\ ranked = [cards |-> <<>>, rank |-> Unranked]

\* the engine object after a call becomes the state
Apply(e) ==
  /\ state' = e.state
  /\ streetBets' = e.streetBets
  /\ totalBets' = e.totalBets
  /\ publicReveals' = e.publicReveals
  /\ revealSeats' = e.revealSeats
  /\ actionLog' = e.actionLog

Called(op, id, kind, amount, ok) ==
  lastCall' = [op |-> op, id |-> id, kind |-> kind, amount |-> amount, ok |-> ok]

AddPlayer(req) ==
  LET r == addPlayer(this, req.id, req.name, req.stack, req.owner) IN
  /\ Apply(r.this)
  /\ bought' = IF r.ret THEN bought + r.this.state.players[Len(r.this.state.players)].stack
               ELSE bought
  /\ Called("addPlayer", req.id, req.name, req.stack, r.ret)
  /\ UNCHANGED <<hands, acts, gone, view, chosen, ranked>>

SetBlinds(sb, bb) ==
  /\ Apply(setBlinds(this, sb, bb))
  /\ Called("setBlinds", "", "", bb, TRUE)
  /\ UNCHANGED <<bought, hands, acts, gone, view, chosen, ranked>>

StartHand(seed) ==
  /\ Len(state.players) >= 2 => hands < MaxHands
  /\ Apply(startHand(this, seed))
  /\ hands' = IF Len(state.players) >= 2 THEN hands + 1 ELSE hands
  /\ Called("startHand", "", "", 0, TRUE)
  /\ chosen' = IF Len(state.players) >= 2 THEN {} ELSE chosen
  /\ UNCHANGED <<bought, acts, gone, view, ranked>>

PlayerAction(id, kind, amount) ==
  LET r == playerAction(this, id, kind, amount) IN
  /\ Apply(r.this)
  /\ acts' = IF r.ret THEN acts + 1 ELSE acts
  /\ Called("playerAction", id, kind, amount, r.ret)
  /\ UNCHANGED <<bought, hands, gone, view, chosen, ranked>>

DoShow(id) ==
  LET r == doShow(this, id) IN
  /\ Apply(r.this)
  /\ Called("doShow", id, "", 0, r.ret)
  /\ chosen' = IF r.ret THEN chosen \cup {id} ELSE chosen
  /\ UNCHANGED <<bought, hands, acts, gone, view, ranked>>

DoMuck(id) ==
  LET r == doMuck(this, id) IN
  /\ Apply(r.this)
  /\ Called("doMuck", id, "", 0, r.ret)
  /\ chosen' = IF r.ret THEN chosen \cup {id} ELSE chosen
  /\ UNCHANGED <<bought, hands, acts, gone, view, ranked>>

RemovePlayer(id) ==
  /\ Apply(removePlayer(this, id))
  /\ gone' = IF hasPlayer(this, id) THEN gone \cup {id} ELSE gone
  /\ Called("removePlayer", id, "", 0, TRUE)
  /\ UNCHANGED <<bought, hands, acts, view, chosen, ranked>>

GetBroadcastView ==
  /\ view' = getBroadcastView(this).pots
  /\ Called("getBroadcastView", "", "", 0, TRUE)
  /\ UNCHANGED <<engineVars, bought, hands, acts, gone, chosen, ranked>>

\* the amounts a call of the given kind carries (none for fold, check, call)
AmountsOf(kind) == IF kind \in {"bet", "raise"} THEN Amounts ELSE {0}

\* the call changed the engine
Changed == engineVars' # engineVars

\* Sockets join, and the owner starts a hand, between hands or during the
\* first betting round.
LateStages == {"waiting", "preflop", "showdown"}

\* The session layer (index.ts): createRoom calls setBlinds and then seats the
\* owner; the other sockets join later, each once, at any time.
Join(req) ==
  /\ req.owner <=> state.players = <<>>
  /\ state.stage \in LateStages
  /\ ~hasPlayer(this, req.id)
  /\ AddPlayer(req)

Configure(b) ==
  /\ state.players = <<>>
  /\ SetBlinds(b[1], b[2])

\* Every call that changes the engine.  A call that changes nothing (a refused
\* action, a repeated setBlinds) leaves the engine where it was, so the engine
\* states reached are those of all call sequences; the refused calls
\* themselves are steps of SpecCalls.
Next ==
  \/ \E req \in JoinRequests : Join(req) /\ Changed
  \/ \E b \in BlindInputs : Configure(b) /\ Changed
  \/ \E seed \in 1..NumSeeds : state.stage \in LateStages /\ StartHand(seed) /\ Changed
  \/ \E id \in Ids, kind \in Kinds : \E amount \in AmountsOf(kind) :
        PlayerAction(id, kind, amount) /\ acts' <= MaxActs /\ Changed

Spec == Init /\ [][Next]_vars

\* Every call, accepted or refused: lastCall tells which call a step made and
\* what it returned.
NextCalls ==
  \/ \E req \in JoinRequests : Join(req) /\ hands' <= MaxCallHands
  \/ \E b \in BlindInputs : Configure(b) /\ hands' <= MaxCallHands
  \/ \E seed \in 1..NumSeeds :
        state.stage \in LateStages /\ StartHand(seed) /\ hands' <= MaxCallHands
  \/ \E id \in Ids, kind \in Kinds : \E amount \in AmountsOf(kind) :
        PlayerAction(id, kind, amount) /\ acts' <= MaxCallActs

SpecCalls == Init /\ [][NextCalls]_vars

\* Players come and go (leaveRoom, disconnect and kick all end in
\* removePlayer); a socket that has left does not come back.  A hand may be
\* started at any stage; the blinds are those of the constructor.
NextTable ==
  \/ \E req \in JoinRequests : Join(req) /\ req.id \notin gone /\ Changed
  \/ \E seed \in 1..NumSeeds : StartHand(seed) /\ Changed
  \/ \E id \in Ids, kind \in Kinds : \E amount \in AmountsOf(kind) :
        PlayerAction(id, kind, amount) /\ acts' <= MaxTableActs /\ Changed
  \/ \E id \in Ids : RemovePlayer(id) /\ Cardinality(gone') <= MaxLeaves /\ Changed

SpecTable == Init /\ [][NextTable]_vars

\* The table fills up before the hand: the guests arrive in order, and a guest
\* may ask again while seated (the same name) or when the table is full; the
\* refused requests are steps too.  One hand is played without bets or raises;
\* the first two guests have chips left after calling the big blind.
NextFull ==
  \/ \E k \in 1..NumGuests :
        /\ k <= Len(state.players) + 1
        /\ state.stage = "waiting"
        /\ AddPlayer(Guest(k))
  \/ \E seed \in 1..NumSeeds :
        state.stage = "waiting" /\ StartHand(seed) /\ hands' <= MaxFullHands /\ Changed
  \/ \E k \in 1..NumGuests, kind \in QuietKinds :
        PlayerAction(Guest(k).id, kind, 0) /\ acts' <= MaxFullActs /\ Changed

SpecFull == Init /\ [][NextFull]_vars

\* A hand of three players before the flop, blinds 1 and 2, with the
\* contributions `bets` and the seats in `out` folded: a seat that has paid
\* less than the highest contribution and has not folded is all-in, the others
\* have chips left.
PotTable(bets, out) ==
  LET reqs == <<[id |-> "s1", name |-> "ann"], [id |-> "s2", name |-> "bob"],
                [id |-> "s3", name |-> "cat"]>>
      top  == SetMax({bets[i] : i \in 1..3})
      deck == ShuffledDecks[1]
      short(i) == i \notin out /\ bets[i] > 0 /\ bets[i] < top
  IN [stage |-> "preflop",
      players |-> [i \in 1..3 |->
                     [id |-> reqs[i].id, name |-> reqs[i].name,
                      stack |-> IF short(i) THEN 0 ELSE 10, seat |-> i - 1,
                      hole |-> <<deck[53 - 2 * i], deck[52 - 2 * i]>>,
                      inHand |-> i \notin out, hasActedThisRound |-> bets[i] > 2,
                      isAllIn |-> short(i), isOwner |-> (i = 1)]],
      dealerSeat |-> 0, smallBlind |-> 1, bigBlind |-> 2,
      currentBet |-> Max(2, top), minRaise |-> 2, pot |-> bets[1] + bets[2] + bets[3],
      community |-> <<>>, turnSeat |-> 0, deck |-> SubSeq(deck, 1, 46),
      lastAggressorSeat |-> 2, message |-> Msg("New hand", <<>>, <<>>),
      lastWinners |-> <<>>, pots |-> <<>>]

\* The ledgers buildSidePots is applied to: at least two seats have paid (the
\* blinds), at most one seat has folded (the hand is not over) and it has paid
\* no more than a seat still in the hand.
InitPots ==
  \E bets \in [1..3 -> PotAmounts], out \in SUBSET (1..3) :
    /\ Cardinality({i \in 1..3 : bets[i] > 0}) >= 2
    /\ Cardinality(out) <= 1
    /\ \A i \in out : \E j \in (1..3) \ out : bets[i] <= bets[j]
    /\ state = PotTable(bets, out)
    /\ streetBets = bets
    /\ totalBets = bets
    /\ publicReveals = <<>>
    /\ revealSeats = {}
    /\ actionLog = <<>>
    /\ bought = SumSeq([i \in 1..3 |-> PotTable(bets, out).players[i].stack])
                   + bets[1] + bets[2] + bets[3]
    /\ hands = 1
    /\ acts = 0
    /\ lastCall = [op |-> "new", id |-> "", kind |-> "", amount |-> 0, ok |-> TRUE]
    /\ gone = {}
    /\ view = <<>>
    /\ chosen = {}
    /\ ranked = [cards |-> <<>>, rank |-> Unranked]

\* The table is looked at: getBroadcastView() builds the side pots.
NextPots == GetBroadcastView

SpecPots == InitPots /\ [][NextPots]_vars

----------------------------------------------------------------------------
(* Observations used by the properties *)

\* the sum of all player stacks
Stacks == SumSeq([i \in 1..Len(state.players) |-> state.players[i].stack])

\* the sum of the amounts of the side pots in state.pots
SidePotChips == SumSeq([i \in 1..Len(state.pots) |-> state.pots[i].amount])

\* the last hand ended in a full showdown: a winner was ranked
FullShowdown ==
  /\ state.stage = "showdown"
  /\ \E i \in DOMAIN state.lastWinners : state.lastWinners[i].category # NULL

----------------------------------------------------------------------------
(* Chip accounting *)

\* C1: in every reachable state the player stacks, the pot and the amounts of
\* the side pots add up to the chips bought into the table.
C1_ChipConservation == Stacks + state.pot + SidePotChips = bought

\* A state in which chips have left the table: stacks, pot and side pots
\* together hold less than was bought in.
C1_ChipsDestroyed == Stacks + state.pot + SidePotChips < bought

\* C2: after a full showdown the pot and the side pots are zero and the stacks
\* add up to the chips bought in.
C2_ShowdownPayout ==
  FullShowdown => state.pot = 0 /\ SidePotChips = 0 /\ Stacks = bought

\* A first hand (no restart before it) that ended in a full showdown after
\* which the stacks hold less than was bought in.
C2_PayoutShort == FullShowdown /\ hands = 1 /\ state.pot = 0 /\ Stacks < bought

----------------------------------------------------------------------------
(* Refused and accepted actions *)

\* the step is a playerAction call
ActionCalled == lastCall'.op = "playerAction"

\* before the step the stage is a betting stage and the player with this id
\* sits at the seat to act, is in the hand and is not all-in
IsActor(id) ==
  /\ state.stage \in {"preflop", "flop", "turn", "river"}
  /\ \E i \in DOMAIN state.players :
        /\ i - 1 = state.turnSeat
        /\ state.players[i].id = id
        /\ state.players[i].inHand
        /\ ~state.players[i].isAllIn

\* the step returned failure and left every field of the engine as it was
Refused == ~lastCall'.ok /\ engineVars' = engineVars

\* C3: a playerAction call outside the betting stages, or by anyone but the
\* in-hand, not all-in player at the seat to act, returns failure and changes
\* nothing in the engine (players, pot, ledgers, turn, stage, reveals, log).
C3_RejectedUnchanged ==
  [][ActionCalled /\ ~IsActor(lastCall'.id) => Refused]_vars

\* A refused action of a seated player during a betting stage: the seat to act
\* is held by an all-in player, or by somebody else.
C3_RefusedInHand ==
  /\ lastCall.op = "playerAction" /\ ~lastCall.ok
  /\ state.stage \in {"preflop", "flop", "turn", "river"}
  /\ \E i \in DOMAIN state.players :
        /\ state.players[i].id = lastCall.id
        /\ i - 1 = state.turnSeat
        /\ state.players[i].isAllIn

\* the street contribution of the seat to act, before the step
Contributed == streetBets[state.turnSeat + 1]

\* C4: from the player whose turn it is, a check is accepted only when the
\* street contribution equals currentBet, a call only when something is owed
\* and chips are paid (the caller's ledger of the hand grows), a bet only when
\* currentBet is 0; a refused check, call or bet changes nothing.
C4_CheckCallBet ==
  [][ActionCalled /\ IsActor(lastCall'.id) /\ lastCall'.kind \in {"check", "call", "bet"} =>
       /\ lastCall'.kind = "check" /\ lastCall'.ok => Contributed = state.currentBet
       /\ lastCall'.kind = "call" /\ lastCall'.ok =>
            /\ state.currentBet - Contributed > 0
            /\ totalBets'[state.turnSeat + 1] > totalBets[state.turnSeat + 1]
       /\ lastCall'.kind = "bet" /\ lastCall'.ok => state.currentBet = 0
       /\ ~lastCall'.ok => engineVars' = engineVars]_vars

\* A check refused because chips are owed, from the player whose turn it is.
C4_CheckRefused ==
  /\ lastCall.op = "playerAction" /\ lastCall.kind = "check" /\ ~lastCall.ok
  /\ state.stage \in {"preflop", "flop", "turn", "river"}
  /\ \E i \in DOMAIN state.players :
        /\ state.players[i].id = lastCall.id
        /\ i - 1 = state.turnSeat
        /\ state.players[i].inHand /\ ~state.players[i].isAllIn
        /\ streetBets[i] < state.currentBet

----------------------------------------------------------------------------
(* Folding to one player; closing a round *)

\* the players (as positions in a players array) still in the hand
InHand(ps) == {i \in DOMAIN ps : ps[i].inHand}

\* the step is an accepted fold
FoldAccepted == ActionCalled /\ lastCall'.kind = "fold" /\ lastCall'.ok

\* C5: a fold that leaves exactly one player in the hand ends the hand in the
\* same call: the survivor's stack grows by the whole pot, the pot is 0, the
\* stage is showdown, the seat to act is -1, the survivor alone may reveal,
\* nothing is revealed publicly and lastWinners is the survivor's single
\* entry with no category.
C5_FoldToOne ==
  [][FoldAccepted /\ Cardinality(InHand(state'.players)) = 1 =>
       \A w \in InHand(state'.players) :
          /\ state'.players[w].stack = state.players[w].stack + state.pot
          /\ state'.pot = 0
          /\ state'.stage = "showdown"
          /\ state'.turnSeat = -1
          /\ revealSeats' = {w - 1}
          /\ DOMAIN publicReveals' = {}
          /\ Len(state'.lastWinners) = 1
          /\ state'.lastWinners[1].seat = w - 1
          /\ state'.lastWinners[1].name = state.players[w].name
          /\ state'.lastWinners[1].amount = state.pot
          /\ state'.lastWinners[1].category = NULL]_vars

\* A hand ended after the flop by a fold that left one player.
C5_FoldedAfterFlop ==
  /\ lastCall.op = "playerAction" /\ lastCall.kind = "fold" /\ lastCall.ok
  /\ state.stage = "showdown"
  /\ Len(state.community) >= 3
  /\ Cardinality(InHand(state.players)) = 1
  /\ state.players[CHOOSE w \in InHand(state.players) : TRUE].stack > 0

\* the step is an accepted action after which the hand goes on
ActedOn == ActionCalled /\ lastCall'.ok /\ state'.stage \in {"preflop", "flop", "turn", "river"}

\* the engine as the accepted action left it before the turn was moved
Acted == actionBranch(this, state.turnSeat, lastCall'.kind, lastCall'.amount).this

\* every in-hand, not all-in player has acted and has matched currentBet
RoundClosed(e) ==
  \A i \in DOMAIN e.state.players :
     e.state.players[i].inHand /\ ~e.state.players[i].isAllIn =>
        e.state.players[i].hasActedThisRound /\ e.streetBets[i] = e.state.currentBet

\* the seats whose player is in the hand and not all-in
Able(ps) == {s \in 0..(Len(ps) - 1) : ps[s + 1].inHand /\ ~ps[s + 1].isAllIn}

\* how many seats after `from` the seat s comes, going round the table
After(ps, from, s) == IF s > from THEN s - from ELSE s - from + Len(ps)

\* C6: after an accepted action that does not end the hand the stage has
\* advanced exactly when every in-hand, not all-in player had acted and matched
\* currentBet; otherwise the stage is the same and the seat to act is the
\* nearest following seat (wrapping) whose player is in-hand and not all-in.
C6_RoundClosure ==
  [][ActedOn =>
       /\ state'.stage # state.stage <=> RoundClosed(Acted)
       /\ state'.stage = state.stage =>
            /\ state'.turnSeat \in Able(state'.players)
            /\ \A s \in Able(state'.players) :
                  After(state.players, state.turnSeat, state'.turnSeat)
                     <= After(state.players, state.turnSeat, s)]_vars

\* The turn has passed on within a street, over a seat that cannot act.
C6_TurnSkipped ==
  /\ lastCall.op = "playerAction" /\ lastCall.ok
  /\ state.stage \in {"preflop", "flop", "turn", "river"}
  /\ \E i \in DOMAIN state.players :
        /\ state.players[i].id = lastCall.id
        /\ state.players[i].hasActedThisRound
        /\ After(state.players, i - 1, state.turnSeat) >= 2
        /\ state.turnSeat \in Able(state.players)

----------------------------------------------------------------------------
(* The seat to act *)

\* C7: in every betting-stage state the seat to act is a seat of the table and
\* its player is in the hand and not all-in.
C7_TurnSeatCanAct ==
  state.stage \in {"preflop", "flop", "turn", "river"} =>
     /\ state.turnSeat \in 0..(Len(state.players) - 1)
     /\ state.players[state.turnSeat + 1].inHand
     /\ ~state.players[state.turnSeat + 1].isAllIn

\* Right after a startHand that followed a finished hand (no chip has left
\* the table) the seat to act is the small blind, all-in from posting it.
C7_BlindAllInToAct ==
  /\ lastCall.op = "startHand"
  /\ state.stage = "preflop"
  /\ Stacks + state.pot = bought
  /\ state.players[state.turnSeat + 1].isAllIn

\* C8: the engine never reaches a betting-stage state in which every
\* playerAction call is refused.
C8_SomeActionAccepted ==
  state.stage \in {"preflop", "flop", "turn", "river"} =>
     \E id \in Ids, kind \in Kinds : \E amount \in AmountsOf(kind) :
        playerAction(this, id, kind, amount).ret

\* A street of the first hand dealt with every player of the hand all-in:
\* nobody can act and no card will be dealt any more.
C8_AllInStalled ==
  /\ lastCall.op = "playerAction" /\ lastCall.ok
  /\ hands = 1
  /\ state.stage \in {"flop", "turn", "river"}
  /\ Cardinality(InHand(state.players)) >= 2
  /\ \A i \in InHand(state.players) : state.players[i].isAllIn
  /\ \A id \in Ids, kind \in Kinds : \A amount \in AmountsOf(kind) :
        ~playerAction(this, id, kind, amount).ret

----------------------------------------------------------------------------
(* Raise sizes *)

\* the step is a raise, by the player whose turn it is, asking for a street
\* contribution below currentBet + minRaise
LowRaiseCalled ==
  /\ ActionCalled /\ lastCall'.kind = "raise"
  /\ IsActor(lastCall'.id)
  /\ lastCall'.amount < state.currentBet + state.minRaise

\* the chips the step moved from the seat to act into the pot
Paid == totalBets'[state.turnSeat + 1] - totalBets[state.turnSeat + 1]

\* C9, as the specification states it: a raise asking for less than
\* currentBet + minRaise returns failure and changes nothing.
C9_LowRaiseRefused == [][LowRaiseCalled => Refused]_vars

\* C9, as the code has it: such a raise is taken as a raise to
\* currentBet + bigBlind; it succeeds and the player pays what is missing to
\* that contribution, or the whole stack if that is less; it is refused only
\* when the player has nothing to pay.
C9_LowRaiseLifted ==
  [][LowRaiseCalled =>
       IF state.players[state.turnSeat + 1].stack > 0
       THEN /\ lastCall'.ok
            /\ Paid = Min(state.currentBet + state.bigBlind - Contributed,
                          state.players[state.turnSeat + 1].stack)
       ELSE Refused]_vars

\* A raise that asked for 0 and was accepted as the minimum raise over the
\* big blind.
C9_MinRaiseMade ==
  /\ lastCall.op = "playerAction" /\ lastCall.kind = "raise" /\ lastCall.ok
  /\ lastCall.amount = 0
  /\ state.stage = "preflop"
  /\ state.currentBet = 2 * state.bigBlind
  /\ \E i \in DOMAIN state.players :
        state.players[i].id = lastCall.id /\ streetBets[i] = state.currentBet

\* the step is an accepted raise
RaiseAccepted == ActionCalled /\ lastCall'.kind = "raise" /\ lastCall'.ok

\* C10: minRaise equals bigBlind in every reachable state, whatever the bets
\* and raises were, and an accepted raise brings the raiser's street
\* contribution to currentBet + bigBlind at least (or takes the whole stack).
C10_MinRaiseIsBigBlind ==
  /\ [](state.minRaise = state.bigBlind)
  /\ [][RaiseAccepted =>
          Paid >= Min(state.currentBet + state.bigBlind - Contributed,
                      state.players[state.turnSeat + 1].stack)]_vars

\* A bet of twice the big blind has been made and minRaise is still the big
\* blind.
C10_BigBetMade ==
  /\ lastCall.op = "playerAction" /\ lastCall.kind = "bet" /\ lastCall.ok
  /\ state.stage \in {"flop", "turn", "river"}
  /\ state.currentBet >= 2 * state.bigBlind
  /\ state.minRaise = state.bigBlind

----------------------------------------------------------------------------
(* The ledgers *)

\* C11: in every betting-stage state the street contribution of every in-hand
\* player is at most currentBet.
C11_StreetBetsBounded ==
  state.stage \in {"preflop", "flop", "turn", "river"} =>
     \A i \in DOMAIN state.players :
        state.players[i].inHand => streetBets[i] <= state.currentBet

\* A raise has lifted currentBet above the big blind: the raiser's street
\* contribution equals it and another in-hand player is still below it.
C11_RaisedAbove ==
  /\ lastCall.op = "playerAction" /\ lastCall.kind = "raise" /\ lastCall.ok
  /\ state.stage \in {"preflop", "flop", "turn", "river"}
  /\ state.currentBet > state.bigBlind
  /\ \E i, j \in DOMAIN state.players :
        /\ state.players[i].id = lastCall.id /\ state.players[i].inHand
        /\ streetBets[i] = state.currentBet
        /\ state.players[j].inHand /\ streetBets[j] < state.currentBet

\* C12: in every reachable state every seat has an entry in both ledgers and
\* its contribution of the hand is at least its contribution of the street,
\* whatever payments, stage advances, new hands, joins and departures led
\* there.
C12_TotalCoversStreet ==
  \A i \in DOMAIN state.players :
     /\ i \in DOMAIN streetBets /\ i \in DOMAIN totalBets
     /\ totalBets[i] >= streetBets[i]

\* After the flop, with a player gone from the table, a seat has paid on this
\* street and more than that in the hand.
C12_PaidOnTwoStreets ==
  /\ gone # {}
  /\ state.stage \in {"flop", "turn", "river"}
  /\ \E i \in DOMAIN state.players :
        streetBets[i] > 0 /\ totalBets[i] > streetBets[i]

----------------------------------------------------------------------------
(* Seats *)

\* the position (1-based) of the player with this id in a players array
PosOf(ps, id) == CHOOSE i \in DOMAIN ps : ps[i].id = id

\* the step is an addPlayer or removePlayer call
SeatingCalled == lastCall'.op \in {"addPlayer", "removePlayer"}

\* C13: in every reachable state each player's seat field is the position in
\* the players array (so the seats are 0..N-1 without gap or duplicate) and
\* both ledgers have N entries; and across an addPlayer or removePlayer call
\* every player who stays keeps their fields (but the seat) and their two
\* ledger entries.
C13_SeatsDense ==
  /\ [](/\ \A i \in DOMAIN state.players : state.players[i].seat = i - 1
        /\ Len(streetBets) = Len(state.players)
        /\ Len(totalBets) = Len(state.players))
  /\ [][SeatingCalled =>
          \A j \in DOMAIN state'.players :
             LET id == state'.players[j].id IN
             (\E o \in DOMAIN state.players : state.players[o].id = id) =>
                /\ state'.players[j] =
                     [state.players[PosOf(state.players, id)] EXCEPT !.seat = j - 1]
                /\ streetBets'[j] = streetBets[PosOf(state.players, id)]
                /\ totalBets'[j] = totalBets[PosOf(state.players, id)]]_vars

\* The first seat has just left during a hand: the two players behind it have
\* moved down one seat, with different contributions in the hand.
C13_FirstSeatLeft ==
  /\ lastCall.op = "removePlayer" /\ lastCall.id = "s1" /\ "s1" \in gone
  /\ state.stage \in {"preflop", "flop", "turn", "river"}
  /\ Len(state.players) = 2
  /\ totalBets[1] > 0 /\ totalBets[2] > 0 /\ totalBets[1] # totalBets[2]

\* C14: an addPlayer call returns failure and changes nothing when 9 players
\* are seated or a seated player has the name asked for; otherwise it returns
\* success, the newcomer sits at seat N, the former player count, the players
\* already seated are unchanged and both ledgers are the former ledgers with a
\* zero appended at position N.
C14_AddPlayer ==
  [][lastCall'.op = "addPlayer" =>
       LET N == Len(state.players) IN
       IF N >= 9 \/ \E i \in DOMAIN state.players : state.players[i].name = lastCall'.kind
       THEN Refused
       ELSE /\ lastCall'.ok
            /\ Len(state'.players) = N + 1
            /\ SubSeq(state'.players, 1, N) = state.players
            /\ state'.players[N + 1].seat = N
            /\ state'.players[N + 1].id = lastCall'.id
            /\ state'.players[N + 1].name = lastCall'.kind
            /\ streetBets' = Append(streetBets, 0)
            /\ totalBets' = Append(totalBets, 0)]_vars

\* A tenth guest, whose name nobody at the table has, has been refused at the
\* full table.
C14_TableFull ==
  /\ lastCall.op = "addPlayer" /\ ~lastCall.ok
  /\ Len(state.players) = 9
  /\ \A i \in DOMAIN state.players : state.players[i].name # lastCall.kind

----------------------------------------------------------------------------
(* startHand *)

\* the step is a startHand call
StartCalled == lastCall'.op = "startHand"

\* C15: a startHand call with fewer than two players seated sets the message
\* and nothing else: stage, deck, dealer seat, players (stacks, hole cards,
\* flags), pot, community cards, both ledgers, the reveal state and the log
\* are as before.
C15_StartHandNeedsTwo ==
  [][StartCalled /\ Len(state.players) < 2 =>
       /\ state' = [state EXCEPT !.message = Msg("Need 2+ players", <<>>, <<>>)]
       /\ streetBets' = streetBets /\ totalBets' = totalBets
       /\ publicReveals' = publicReveals /\ revealSeats' = revealSeats
       /\ actionLog' = actionLog]_vars

\* startHand has been called during a hand in which one player is left at the
\* table, chips in the pot: the hand stays as it was.
C15_AloneInHand ==
  /\ lastCall.op = "startHand"
  /\ Len(state.players) = 1
  /\ state.stage \in {"preflop", "flop", "turn", "river"}
  /\ state.pot > 0 /\ state.players[1].hole # <<>>
  /\ state.message = Msg("Need 2+ players", <<>>, <<>>)

\* C16: a startHand call with N >= 2 players seated moves the dealer seat to
\* (dealerSeat + 1) mod N; the seats (dealer+1) mod N and (dealer+2) mod N pay
\* min(smallBlind, stack) and min(bigBlind, stack), nobody else pays, and the
\* pot is the sum of the two payments; currentBet is bigBlind, the seat to act
\* is (dealer+3) mod N, lastAggressorSeat is the big-blind seat, the stage is
\* preflop and there are no community cards.
C16_StartHand ==
  [][StartCalled /\ Len(state.players) >= 2 =>
       LET N  == Len(state.players)
           d  == (state.dealerSeat + 1) % N
           sb == (d + 1) % N
           bb == (d + 2) % N
           due == [s \in 0..(N - 1) |->
                     IF s = sb THEN Min(state.smallBlind, state.players[s + 1].stack)
                     ELSE IF s = bb THEN Min(state.bigBlind, state.players[s + 1].stack)
                     ELSE 0]
       IN /\ state'.dealerSeat = d
          /\ \A s \in 0..(N - 1) :
                /\ state'.players[s + 1].stack = state.players[s + 1].stack - due[s]
                /\ streetBets'[s + 1] = due[s]
                /\ totalBets'[s + 1] = due[s]
          /\ state'.pot = due[sb] + due[bb]
          /\ state'.currentBet = state.bigBlind
          /\ state'.turnSeat = (d + 3) % N
          /\ state'.lastAggressorSeat = bb
          /\ state'.stage = "preflop"
          /\ state'.community = <<>>]_vars

\* The second hand at a table of three has just started after a finished
\* first hand (no chip has left the table): the dealer seat has moved on to
\* seat 2 and the big blind, short of chips, has paid less than the big blind.
C16_ShortBigBlind ==
  /\ lastCall.op = "startHand" /\ hands = 2
  /\ state.stage = "preflop"
  /\ Len(state.players) = 3
  /\ state.dealerSeat = 2
  /\ state.lastAggressorSeat = 1
  /\ totalBets[2] > 0 /\ totalBets[2] < state.bigBlind
  /\ state.pot = totalBets[1] + totalBets[2]
  /\ Stacks + state.pot = bought

----------------------------------------------------------------------------
(* The cards *)

\* the number of cards in the deck, on the board and in the players' hands
CardsHeld ==
  Len(state.deck) + Len(state.community)
    + SumSeq([i \in 1..Len(state.players) |-> Len(state.players[i].hole)])

\* the set of those cards
CardSet ==
  Range(state.deck) \cup Range(state.community)
    \cup UNION {Range(state.players[i].hole) : i \in DOMAIN state.players}

\* the cards advanceStage will still draw in this hand, burnt cards included
CardsToDraw ==
  CASE state.stage = "preflop" -> 8
    [] state.stage = "flop" -> 4
    [] state.stage = "turn" -> 2
    [] OTHER -> 0

\* C17: in every reachable state no card is held twice among the deck, the
\* hole cards of all players and the community cards, these are at most 52
\* cards, and the deck holds every card the rest of the hand will draw.
C17_CardsDisjoint ==
  /\ Cardinality(CardSet) = CardsHeld
  /\ CardsHeld <= 52
  /\ Len(state.deck) >= CardsToDraw

\* Nine players were dealt in and the river is on the board: 18 hole cards,
\* 5 community cards, 3 burnt, 26 left in the deck.
C17_NineAtRiver ==
  /\ Len(state.players) = 9
  /\ \A i \in DOMAIN state.players : Len(state.players[i].hole) = 2
  /\ Len(state.community) = 5
  /\ Len(state.deck) = 26

----------------------------------------------------------------------------
(* The stages *)

\* the stage that follows a betting stage when its round closes
StageAfter(stage) ==
  CASE stage = "preflop" -> "flop"
    [] stage = "flop" -> "turn"
    [] stage = "turn" -> "river"
    [] stage = "river" -> "showdown"
    [] OTHER -> stage

\* the number of community cards of a betting stage
BoardOf(stage) ==
  CASE stage = "preflop" -> 0
    [] stage = "flop" -> 3
    [] stage = "turn" -> 4
    [] stage = "river" -> 5

\* C18: the stage changes only when an effective startHand sets preflop, when
\* an accepted action moves a betting stage to the next one in the order
\* preflop, flop, turn, river, showdown (one step per action), when an
\* accepted fold leaves one player in the hand and ends it in showdown, or when
\* removePlayer empties the table and sets waiting.  Each betting stage shows
\* its own number of community cards, and with nobody seated the stage is
\* waiting.
C18_StageEdges ==
  /\ [](/\ state.players = <<>> => state.stage = "waiting"
        /\ state.stage \in {"preflop", "flop", "turn", "river"} =>
              Len(state.community) = BoardOf(state.stage))
  /\ [][/\ StartCalled /\ Len(state.players) >= 2 => state'.stage = "preflop"
        /\ FoldAccepted /\ Cardinality(InHand(state'.players)) = 1 =>
              state'.stage = "showdown"
        /\ state'.stage # state.stage =>
              \/ StartCalled /\ Len(state.players) >= 2 /\ state'.stage = "preflop"
              \/ /\ ActionCalled /\ lastCall'.ok
                 /\ state.stage \in {"preflop", "flop", "turn", "river"}
                 /\ state'.stage = StageAfter(state.stage)
              \/ /\ FoldAccepted /\ Cardinality(InHand(state'.players)) = 1
                 /\ state.stage \in {"preflop", "flop", "turn", "river"}
                 /\ state'.stage = "showdown"
              \/ /\ lastCall'.op = "removePlayer"
                 /\ state'.players = <<>> /\ state'.stage = "waiting"]_vars

\* The last player has just left the table during a hand: the stage is waiting
\* although the hand's chips are still in the pot.
C18_LastPlayerLeft ==
  /\ lastCall.op = "removePlayer"
  /\ state.players = <<>>
  /\ state.stage = "waiting"
  /\ Cardinality(gone) = 2
  /\ state.pot > 0 /\ Len(state.community) >= 3

----------------------------------------------------------------------------
(* Side pots *)

\* the distinct positive contributions of the hand, ascending
Levels == SortAsc({totalBets[i] : i \in DOMAIN totalBets} \ {0})

\* the seats (ascending) whose contribution reaches the level, and those of
\* them still in the hand
Reaching(level) ==
  FilterSeq([i \in 1..Len(totalBets) |-> i - 1], LAMBDA s : totalBets[s + 1] >= level)
Entitled(level) ==
  FilterSeq(Reaching(level), LAMBDA s : state.players[s + 1].inHand)

\* C19: the side pots built from the ledger of the hand are one pot for each
\* distinct positive contribution, in ascending order; the k-th pot holds the
\* k-th level minus the level before it, times the number of seats that
\* reach the k-th level, and is open to those of them still in the hand; no
\* pot is empty and the pots add up to the ledger.  Contributions 10, 30, 50
\* of three players in the hand give 30 (all three), 40 (the last two) and
\* 20 (the last one).
C19_SidePotLayers ==
  lastCall.op = "getBroadcastView" =>
    /\ Len(view) = Len(Levels)
    /\ \A k \in DOMAIN view :
          /\ view[k].amount =
                (Levels[k] - (IF k = 1 THEN 0 ELSE Levels[k - 1])) * Len(Reaching(Levels[k]))
          /\ view[k].amount > 0
          /\ view[k].eligibleSeats = Entitled(Levels[k])
    /\ SumSeq([k \in 1..Len(view) |-> view[k].amount]) = SumSeq(totalBets)
    /\ (totalBets = <<10, 30, 50>> /\ \A i \in DOMAIN state.players : state.players[i].inHand)
          => view = << [amount |-> 30, eligibleSeats |-> <<0, 1, 2>>],
                       [amount |-> 40, eligibleSeats |-> <<1, 2>>],
                       [amount |-> 20, eligibleSeats |-> <<2>>] >>

\* The side pots of contributions 10, 30 and 50 by three players in the hand
\* have been built: three pots, the last one open to its only contributor.
C19_ThreeLayers ==
  /\ lastCall.op = "getBroadcastView"
  /\ totalBets = <<10, 30, 50>>
  /\ \A i \in DOMAIN state.players : state.players[i].inHand
  /\ Len(view) = 3
  /\ view[3].eligibleSeats = <<2>>

\* the step is an accepted action on the river that ends the hand in a full
\* showdown: a ranked winner is recorded
ShowdownStep ==
  /\ ActionCalled /\ lastCall'.ok
  /\ state.stage = "river" /\ state'.stage = "showdown"
  /\ \E i \in DOMAIN state'.lastWinners : state'.lastWinners[i].category # NULL

\* the chips the showdown of the step credited to the player at position i:
\* the growth of the stack, with what the step made the player pay added back
Won(i) ==
  state'.players[i].stack - state.players[i].stack + (totalBets'[i] - totalBets[i])

\* the chips of the side pots of the showdown that seat s may contest
Contestable(s) ==
  SumSeq([k \in 1..Len(state'.pots) |->
            IF s \in Range(state'.pots[k].eligibleSeats) THEN state'.pots[k].amount ELSE 0])

\* C20: at a full showdown a player is credited chips only from side pots
\* whose eligible set holds the player's seat: a folded player receives
\* nothing, and a player who contributed X in the hand receives at most the
\* sum over all seats j of min(X, totalBets[j]).
C20_PaidFromEligiblePots ==
  [][ShowdownStep =>
       \A i \in DOMAIN state'.players :
          /\ Won(i) >= 0
          /\ Won(i) <= Contestable(i - 1)
          /\ ~state'.players[i].inHand => Won(i) = 0
          /\ Won(i) <= SumSeq([j \in 1..Len(totalBets') |->
                                 Min(totalBets'[i], totalBets'[j])])]_vars

\* A full showdown of a first hand with two side pots: a winner who had paid
\* less than another player took exactly the chips matched by that payment,
\* less than the whole pot.
C20_ShortStackWon ==
  /\ FullShowdown /\ hands = 1
  /\ Len(state.pots) >= 2
  /\ \E w \in DOMAIN state.lastWinners :
        LET s == state.lastWinners[w].seat IN
        /\ \E j \in DOMAIN totalBets : totalBets[j] > totalBets[s + 1]
        /\ state.lastWinners[w].amount =
              SumSeq([j \in 1..Len(totalBets) |-> Min(totalBets[s + 1], totalBets[j])])
        /\ state.lastWinners[w].amount < SidePotChips

----------------------------------------------------------------------------
(* The end of a hand at a table of eight *)

\* the five community cards of the two hands played out: a board that is the
\* best hand of every player (an ace-high straight), and one that is not
Boards ==
  { <<Card(14, "c"), Card(13, "d"), Card(12, "h"), Card(11, "s"), Card(10, "c")>>,
    <<Card(13, "c"), Card(11, "d"), Card(9, "h"), Card(7, "s"), Card(2, "c")>> }

\* the hole cards dealt to seats 0..7: seats 1, 3, 4 and 6 had no chips when
\* the hand began and got none
Deal(a, b, c) == <<<<Card(14, "h"), Card(14, "d")>>, <<>>, a, <<>>, <<>>, b, <<>>, c>>

Deals ==
  { Deal(<<Card(13, "h"), Card(5, "d")>>, <<Card(13, "s"), Card(5, "h")>>,
         <<Card(6, "d"), Card(6, "h")>>),
    Deal(<<Card(13, "h"), Card(8, "d")>>, <<Card(13, "s"), Card(5, "h")>>,
         <<Card(3, "c"), Card(4, "c")>>),
    Deal(<<Card(2, "d"), Card(3, "h")>>, <<Card(4, "s"), Card(8, "c")>>,
         <<Card(9, "s"), Card(9, "d")>>) }

\* what seats 0, 2, 5 and 7 have paid in the hand: seat 0 has folded, seat 7
\* has paid the most and has chips left, seats 2 and 5 are all-in when they
\* have paid less
Payments ==
  { <<f, 0, a, 0, 0, b, 0, 25>> : f \in {5, 25}, a \in {10, 25}, b \in {20, 25} }

\* the entries of the action log when the river is reached
LogLength == 10

\* The river of a hand of eight players (dealer seat 4, blinds 1 and 2) whose
\* betting is over but for the check of the last player to act.
RiverTable(board, deal, paid) ==
  LET used == Range(board) \cup UNION {Range(deal[i]) : i \in DOMAIN deal}
      turn == IF paid[3] = 25 THEN 2 ELSE 7
      able(i) == deal[i] # <<>> /\ i # 1 /\ paid[i] = 25
  IN [stage |-> "river",
      players |-> [i \in DOMAIN deal |->
                     [id |-> Guest(i).id, name |-> Guest(i).name,
                      stack |-> IF i = 1 \/ able(i) THEN 10 ELSE 0, seat |-> i - 1,
                      hole |-> deal[i],
                      inHand |-> deal[i] # <<>> /\ i # 1,
                      hasActedThisRound |-> able(i) /\ i - 1 # turn,
                      isAllIn |-> deal[i] # <<>> /\ i # 1 /\ paid[i] < 25,
                      isOwner |-> (i = 1)]],
      dealerSeat |-> 4, smallBlind |-> 1, bigBlind |-> 2,
      currentBet |-> 0, minRaise |-> 2, pot |-> SumSeq(paid),
      community |-> board, turnSeat |-> turn,
      deck |-> Take(FilterSeq(ShuffledDecks[1], LAMBDA c : c \notin used), 36),
      lastAggressorSeat |-> 7, message |-> Msg("Next street", <<>>, <<>>),
      lastWinners |-> <<>>, pots |-> <<>>]

InitShowdown ==
  \E board \in Boards, deal \in Deals, paid \in Payments :
    /\ state = RiverTable(board, deal, paid)
    /\ streetBets = [i \in DOMAIN paid |-> 0]
    /\ totalBets = paid
    /\ publicReveals = <<>>
    /\ revealSeats = {}
    /\ actionLog = [i \in 1..LogLength |-> LogItem("Check", <<>>, <<>>, <<>>)]
    /\ bought = SumSeq(paid)
                  + SumSeq([i \in DOMAIN deal |->
                              RiverTable(board, deal, paid).players[i].stack])
    /\ hands = 1
    /\ acts = 0
    /\ lastCall = [op |-> "new", id |-> "", kind |-> "", amount |-> 0, ok |-> TRUE]
    /\ gone = {}
    /\ view = <<>>
    /\ chosen = {}
    /\ ranked = [cards |-> <<>>, rank |-> Unranked]

\* The last player checks or folds, and the hand is paid out; then any player
\* may ask to show or to muck, and a refused request is a step too.  The
\* table is looked at after any call.
NextShowdown ==
  \/ \E k \in 1..NumGuests, kind \in {"check", "fold"} :
        PlayerAction(Guest(k).id, kind, 0) /\ Changed
  \/ \E k \in 1..NumGuests : DoShow(Guest(k).id)
  \/ \E k \in 1..NumGuests : DoMuck(Guest(k).id)
  \/ GetBroadcastView /\ lastCall.op # "getBroadcastView"

SpecShowdown == InitShowdown /\ [][NextShowdown]_vars

----------------------------------------------------------------------------
(* The payout of a pot *)

\* the hand of the contender at seat s, as the showdown ranks it: the five
\* community cards followed by the two hole cards
HandOf(s) == rank7(state.community \o state.players[s + 1].hole)

\* the seats of the contenders of the showdown: still in the hand after the
\* action of the step, holding cards
Contenders == {i - 1 : i \in {j \in DOMAIN state'.players :
                                state'.players[j].inHand /\ state'.players[j].hole # <<>>}}

\* hand a is ranked above hand b: a higher category, or the same category and
\* the larger number at the first position where the tiebreaks differ (a
\* position past the end of a tiebreak reads 0)
At(t, i) == IF i <= Len(t) THEN t[i] ELSE 0
Above(a, b) ==
  \/ a.category > b.category
  \/ /\ a.category = b.category
     /\ \E i \in 1..Max(Len(a.tiebreak), Len(b.tiebreak)) :
           /\ At(a.tiebreak, i) > At(b.tiebreak, i)
           /\ \A j \in 1..(i - 1) : At(a.tiebreak, j) = At(b.tiebreak, j)

\* the hands of the contenders
Hands == [s \in Contenders |-> HandOf(s)]

\* the contenders that may win the k-th side pot of the showdown, and those of
\* them no other one is ranked above, h being the hands
EligibleIn(k) == Range(state'.pots[k].eligibleSeats) \cap Contenders
BestIn(k, h) == {s \in EligibleIn(k) : \A t \in EligibleIn(k) : ~Above(h[t], h[s])}

\* the winners of each side pot of the showdown
Best == LET h == Hands IN [k \in 1..Len(state'.pots) |-> BestIn(k, h)]

\* the share of a pot of `amount` chips won by the seats B due to seat s: the
\* floor of the amount over the number of winners, and one chip more for the
\* first (amount mod winners) winners in ascending seat order
ShareOf(B, amount, s) ==
  IF s \notin B THEN 0
  ELSE (amount \div Cardinality(B))
         + (IF Cardinality({t \in B : t < s}) < amount % Cardinality(B) THEN 1 ELSE 0)

\* C21: when several players tie for a side pot at a showdown, each gets the
\* floor of the amount over their number, and the chips left over go one each
\* to the tied winners with the lowest seats; so a pot with a winner is paid
\* out exactly and two winners of it differ by at most one chip.  A pot of
\* 100 split between seats 2, 5 and 7 gives 34, 33 and 33.
C21_SplitPot ==
  [][ShowdownStep =>
       \A B \in {Best}, pots \in {state'.pots} :
          /\ \A i \in DOMAIN state'.players :
                Won(i) = SumSeq([k \in 1..Len(pots) |-> ShareOf(B[k], pots[k].amount, i - 1)])
          /\ \A k \in DOMAIN pots :
                B[k] # {} =>
                  /\ SumSeq([i \in 1..Len(state'.players) |->
                               ShareOf(B[k], pots[k].amount, i - 1)]) = pots[k].amount
                  /\ \A s, t \in B[k] :
                        ShareOf(B[k], pots[k].amount, s) - ShareOf(B[k], pots[k].amount, t)
                           \in {-1, 0, 1}
          /\ (Len(pots) = 1 /\ pots[1].amount = 100 /\ B[1] = {2, 5, 7})
                => Won(3) = 34 /\ Won(6) = 33 /\ Won(8) = 33]_vars

\* A showdown has split one pot of 100 chips between the tied hands of seats
\* 2, 5 and 7: 34, 33 and 33.
C21_HundredInThree ==
  /\ FullShowdown
  /\ lastCall.op = "playerAction"
  /\ Len(state.pots) = 1 /\ state.pots[1].amount = 100
  /\ [i \in 1..Len(state.lastWinners) |->
        <<state.lastWinners[i].seat, state.lastWinners[i].amount>>]
        = << <<2, 34>>, <<5, 33>>, <<7, 33>> >>

----------------------------------------------------------------------------
(* Revealed cards *)

\* the seats the showdown of the step paid
Winners == {i - 1 : i \in {j \in DOMAIN state'.players : Won(j) > 0}}

\* C22: after a full showdown the hole cards of every seat that won a pot are
\* publicly revealed, every other contender (and nobody else) may choose to
\* show or muck, no seat is in both sets, and no folded player is in either.
C22_ShowdownReveals ==
  [][ShowdownStep =>
       /\ \A s \in Winners :
             /\ s \in DOMAIN publicReveals'
             /\ publicReveals'[s] = state.players[s + 1].hole
             /\ publicReveals'[s] # <<>>
       /\ \A s \in Contenders \ Winners : s \in revealSeats'
       /\ DOMAIN publicReveals' \cap revealSeats' = {}
       /\ \A s \in DOMAIN publicReveals' \cup revealSeats' :
             s \in Contenders /\ state'.players[s + 1].inHand]_vars

\* A showdown between three contenders has just been paid: the winner's cards
\* are public, the two others may show or muck, and the player who had folded
\* with the best cards is in neither set.
C22_WinnerShown ==
  /\ FullShowdown
  /\ lastCall.op = "playerAction"
  /\ DOMAIN publicReveals = {2}
  /\ revealSeats = {5, 7}
  /\ ~state.players[1].inHand /\ state.players[1].hole # <<>>

----------------------------------------------------------------------------
(* Show and muck *)

\* The hand at the table of eight is paid out; then any player may ask to show
\* or to muck (a refused request is a step too), players leave the table, and
\* the next hand is started.
NextReveal ==
  \/ \E k \in 1..NumGuests, kind \in {"check", "fold"} :
        PlayerAction(Guest(k).id, kind, 0) /\ hands = 1 /\ Changed
  \/ \E k \in 1..NumGuests : DoShow(Guest(k).id)
  \/ \E k \in 1..NumGuests : DoMuck(Guest(k).id)
  \/ \E k \in 1..NumGuests :
        /\ state.stage = "showdown"
        /\ RemovePlayer(Guest(k).id) /\ Cardinality(gone') <= MaxLeaves /\ Changed
  \/ state.stage = "showdown" /\ StartHand(1) /\ Changed

\* the hands in which seats 0, 2, 5 and 7 have each paid 25
InitReveal == InitShowdown /\ totalBets = <<25, 0, 25, 0, 0, 25, 0, 25>>

SpecReveal == InitReveal /\ [][NextReveal]_vars

\* the engine after the step
thisAfter == [state |-> state', streetBets |-> streetBets', totalBets |-> totalBets',
              publicReveals |-> publicReveals', revealSeats |-> revealSeats',
              actionLog |-> actionLog']

\* the step is a doShow or doMuck call
RevealCalled == lastCall'.op \in {"doShow", "doMuck"}

\* C23: canReveal(id) is true only when the stage is showdown and the player's
\* seat is in the voluntary-reveal set; doShow and doMuck are one-shot: once
\* either has succeeded for a player, canReveal is false for that player and
\* every later doShow or doMuck by that player in the same hand fails without
\* changing the state; a failed doShow or doMuck never changes what is
\* publicly revealed.
C23_RevealOnce ==
  [][/\ \A k \in 1..NumGuests :
           canReveal(thisAfter, Guest(k).id) =>
              /\ state'.stage = "showdown"
              /\ findIndex(thisAfter, Guest(k).id) \in revealSeats'
              /\ Guest(k).id \notin chosen'
     /\ RevealCalled =>
           /\ lastCall'.id \in chosen => ~lastCall'.ok
           /\ ~lastCall'.ok => engineVars' = engineVars]_vars

\* A player who has already shown the cards of this hand may show or muck
\* again: a player with a lower seat has left, and the seat the player has
\* moved to is still in the voluntary-reveal set.
C23_MayChooseAgain ==
  \E k \in 1..NumGuests :
     /\ Guest(k).id \in chosen
     /\ canReveal(this, Guest(k).id)
     /\ lastCall.op = "removePlayer"

----------------------------------------------------------------------------
(* What the views tell *)

\* another card than c
Other(c) == Card(IF c.rank = 14 THEN 2 ELSE c.rank + 1,
                 IF c.suit = "c" THEN "d" ELSE IF c.suit = "d" THEN "h"
                 ELSE IF c.suit = "h" THEN "s" ELSE "c")

\* the seats whose hole cards are private: cards held, none publicly revealed
Private(e) ==
  {i - 1 : i \in {j \in DOMAIN e.state.players :
                    /\ e.state.players[j].hole # <<>>
                    /\ j - 1 \notin DOMAIN e.publicReveals}}

\* the engine e with deck d, and other hole cards at the seats S
Hidden(e, S, d) ==
  [e EXCEPT !.state.deck = d,
            !.state.players =
               [i \in 1..Len(@) |->
                  IF i - 1 \in S
                  THEN [@[i] EXCEPT !.hole = [j \in 1..Len(@) |-> Other(@[j])]]
                  ELSE @[i]]]

\* engines that differ from e in the undealt deck and in private hole cards
\* only, at the seats P: in all of them, or in one
Alike(e, P) ==
  {Hidden(e, S, d) : S \in {P} \cup {{s} : s \in P},
                     d \in {<<>>, [i \in 1..Len(e.state.deck) |->
                                     e.state.deck[Len(e.state.deck) + 1 - i]]}}

\* the seat of id at the table, NULL when not seated
SeatOf(id) == findIndex(this, id)

\* C24: the broadcast view does not depend on private information: engine
\* states that differ only in the undealt deck and in the hole cards of seats
\* with no public reveal have the same broadcast view; and the private view
\* of a player is the broadcast view but for the player's own hole cards,
\* added to the player's own entry.
C24_ViewsHidePrivateCards ==
  \A b \in {getBroadcastView(this)} :
     /\ \A alt \in Alike(this, Private(this)) : getBroadcastView(alt) = b
     /\ "deck" \notin DOMAIN b
     /\ \A i \in DOMAIN b.players : "hole" \notin DOMAIN b.players[i]
     /\ \A k \in 1..NumGuests :
           \A c \in {getClientView(this, Guest(k).id)} :
              /\ DOMAIN c = DOMAIN b
              /\ \A f \in DOMAIN b \ {"players"} : c[f] = b[f]
              /\ DOMAIN c.players = DOMAIN b.players
              /\ \A i \in DOMAIN b.players :
                    IF i - 1 = SeatOf(Guest(k).id) /\ state.players[i].hole # <<>>
                    THEN /\ DOMAIN c.players[i] = DOMAIN b.players[i] \cup {"hole"}
                         /\ c.players[i].hole = state.players[i].hole
                         /\ \A g \in DOMAIN b.players[i] : c.players[i][g] = b.players[i][g]
                    ELSE c.players[i] = b.players[i]
              /\ \A alt \in Alike(this, Private(this) \ {SeatOf(Guest(k).id)}) :
                    getClientView(alt, Guest(k).id) = c

\* The table has been looked at after a showdown: the winner's cards are
\* public, a loser who has mucked and a player who had folded still hold
\* private cards, and the loser's own view differs from the broadcast view.
C24_MuckedStaysPrivate ==
  /\ lastCall.op = "getBroadcastView"
  /\ FullShowdown
  /\ DOMAIN publicReveals # {}
  /\ \E id \in chosen :
        /\ SeatOf(id) \in Private(this)
        /\ getClientView(this, id) # getBroadcastView(this)
  /\ \E s \in Private(this) : ~state.players[s + 1].inHand

----------------------------------------------------------------------------
(* HandEvaluator.rank7 on seven cards *)

\* the cards of a short deck: two suits of A, 2..6, two more aces, one more
\* deuce and a king
ShortDeck ==
  {Card(r, s) : r \in {14, 2, 3, 4, 5, 6}, s \in {"c", "d"}}
     \cup {Card(14, "h"), Card(2, "h"), Card(14, "s"), Card(13, "h")}

\* the number of cards rank7 is given: the board and two hole cards
HandSize == 7

\* cards in descending order of rank, then in the order of SUITS
SuitIndex(s) == CHOOSE i \in DOMAIN SUITS : SUITS[i] = s

RECURSIVE InOrder(_)
InOrder(S) ==
  IF S = {} THEN <<>>
  ELSE LET top == CHOOSE c \in S : \A d \in S :
                     \/ c.rank > d.rank
                     \/ c.rank = d.rank /\ SuitIndex(c.suit) <= SuitIndex(d.suit)
       IN <<top>> \o InOrder(S \ {top})

\* seven cards of the given distinct ranks, no five of them of one suit
Rainbow(R) ==
  [i \in 1..Cardinality(R) |-> Card(SortDesc(R)[i], SUITS[((i - 1) % 4) + 1])]

\* the hands rank7 is applied to: every seven cards of the short deck, and
\* seven cards of every seven distinct ranks
EvalHands ==
  {InOrder(S) : S \in {T \in SUBSET ShortDeck : Cardinality(T) = HandSize}}
     \cup {Rainbow(R) : R \in {T \in SUBSET Range(RANKS) : Cardinality(T) = HandSize}}

\* the orders in which the seven cards are given: as listed, reversed, mixed
Orders == {<<1, 2, 3, 4, 5, 6, 7>>, <<7, 6, 5, 4, 3, 2, 1>>, <<4, 1, 6, 2, 7, 3, 5>>}

Permuted(cards, order) == [i \in 1..Len(cards) |-> cards[order[i]]]

\* A fresh engine, and seven cards about to be ranked.
InitRank ==
  \E hand \in EvalHands, order \in Orders :
    /\ state = [stage |-> "waiting", players |-> <<>>, dealerSeat |-> 0,
                smallBlind |-> 1, bigBlind |-> 2, currentBet |-> 0, minRaise |-> 2,
                pot |-> 0, community |-> <<>>, turnSeat |-> 0, deck |-> <<>>,
                lastAggressorSeat |-> NULL, message |-> Msg("", <<>>, <<>>),
                lastWinners |-> <<>>, pots |-> <<>>]
    /\ streetBets = <<>>
    /\ totalBets = <<>>
    /\ publicReveals = <<>>
    /\ revealSeats = {}
    /\ actionLog = <<>>
    /\ bought = 0
    /\ hands = 0
    /\ acts = 0
    /\ lastCall = [op |-> "new", id |-> "", kind |-> "", amount |-> 0, ok |-> TRUE]
    /\ gone = {}
    /\ view = <<>>
    /\ chosen = {}
    /\ ranked = [cards |-> Permuted(hand, order), rank |-> Unranked]

\* HandEvaluator.rank7(cards)
Rank7 ==
  /\ ranked.rank = Unranked
  /\ ranked' = [ranked EXCEPT !.rank = rank7(ranked.cards)]
  /\ Called("rank7", "", "", 0, TRUE)
  /\ UNCHANGED <<engineVars, bought, hands, acts, gone, view, chosen>>

NextRank == Rank7

SpecRank == InitRank /\ [][NextRank]_vars


\* the ranks of a set of cards, and how many of the cards have rank r
RanksOf(S) == {c.rank : c \in S}
Count(S, r) == Cardinality({c \in S : c.rank = r})

\* the top rank of the straight made by all of five distinct ranks, 0 when
\* they make none: five in a row, or the wheel A-2-3-4-5, whose top is the 5
StraightOf(R) ==
  IF Cardinality(R) = 5 /\ SetMax(R) - SetMin(R) = 4 THEN SetMax(R)
  ELSE IF R = {14, 2, 3, 4, 5} THEN 5
  ELSE 0

\* the ranks that occur n times among the cards, highest first
Groups(S, n) == SortDesc({r \in RanksOf(S) : Count(S, r) = n})

\* a five-card hand by the rules of poker: its category and, within the
\* category, the ranks that decide between two hands, most important first
Eval5(S) ==
  LET R == RanksOf(S)
      flush == \A c, d \in S : c.suit = d.suit
      high == StraightOf(R)
      rest(n) == SortDesc({r \in R : Count(S, r) # n})
  IN IF flush /\ high # 0 THEN [category |-> 8, tiebreak |-> <<high>>]
     ELSE IF Groups(S, 4) # <<>> THEN [category |-> 7, tiebreak |-> Groups(S, 4) \o rest(4)]
     ELSE IF Groups(S, 3) # <<>> /\ Groups(S, 2) # <<>>
       THEN [category |-> 6, tiebreak |-> Groups(S, 3) \o Groups(S, 2)]
     ELSE IF flush THEN [category |-> 5, tiebreak |-> SortDesc(R)]
     ELSE IF high # 0 THEN [category |-> 4, tiebreak |-> <<high>>]
     ELSE IF Groups(S, 3) # <<>> THEN [category |-> 3, tiebreak |-> Groups(S, 3) \o rest(3)]
     ELSE IF Len(Groups(S, 2)) = 2 THEN [category |-> 2, tiebreak |-> Groups(S, 2) \o rest(2)]
     ELSE IF Len(Groups(S, 2)) = 1 THEN [category |-> 1, tiebreak |-> Groups(S, 2) \o rest(2)]
     ELSE [category |-> 0, tiebreak |-> SortDesc(R)]

\* the five-card hands within the cards
FiveOf(cards) == {Eval5(S) : S \in {T \in SUBSET Range(cards) : Cardinality(T) = 5}}

\* the step has ranked the cards
Ranked == ranked.rank # Unranked

\* C25: rank7 returns the category and tiebreak of the best five-card hand
\* among the seven cards: the greatest, by category and then by tiebreak read
\* from the left, of the 21 five-card subsets valued by the rules of poker.
C25_BestFiveOfSeven ==
  Ranked =>
    \A best \in {ranked.rank}, five \in {FiveOf(ranked.cards)} :
       /\ Cardinality({T \in SUBSET Range(ranked.cards) : Cardinality(T) = 5}) = 21
       /\ best \in five
       /\ \A other \in five : ~Above(other, best)

\* Two triples and a single card have been ranked: a full house of the higher
\* triple over the lower one.
C25_TwoTriples ==
  /\ Ranked
  /\ Len(Groups(Range(ranked.cards), 3)) = 2
  /\ ranked.rank = [category |-> 6, tiebreak |-> <<14, 2>>]


\* the exchanges of two neighbouring cards: every order of the seven cards is
\* reached from any other by a sequence of them
Swaps ==
  {[i \in 1..HandSize |-> IF i = k THEN k + 1 ELSE IF i = k + 1 THEN k ELSE i]
     : k \in 1..(HandSize - 1)}

\* C26: rank7 does not depend on the order of its input: the same seven cards
\* in any other order get the same category and tiebreak.
C26_OrderInvariant ==
  Ranked =>
    /\ \A order \in Swaps \cup Orders : rank7(Permuted(ranked.cards, order)) = ranked.rank
    /\ rank7(InOrder(Range(ranked.cards))) = ranked.rank

\* A flush has been ranked from cards given in a mixed order, the highest
\* card of the flush in the middle of the input.
C26_MixedFlush ==
  /\ Ranked
  /\ ranked.cards = Permuted(InOrder(Range(ranked.cards)), <<4, 1, 6, 2, 7, 3, 5>>)
  /\ ranked.cards # InOrder(Range(ranked.cards))
  /\ ranked.rank.category = 5
  /\ ranked.rank.tiebreak[1] = ranked.cards[2].rank


\* the five ranks of the straight with top rank h: the ace is the rank below
\* the 2 in the wheel (h = 5)
RunBelow(h) == {IF r = 1 THEN 14 ELSE r : r \in (h - 4)..h}

\* the top rank of the highest straight within the ranks R, 0 when none
StraightTop(R) ==
  LET tops == {h \in 5..14 : RunBelow(h) \subseteq R}
  IN IF tops = {} THEN 0 ELSE SetMax(tops)

\* the ranks of the cards of suit s
SuitRanks(cards, s) == {c.rank : c \in {d \in Range(cards) : d.suit = s}}

\* no five of the cards share a suit, no two a rank
Plain(cards) ==
  /\ \A s \in Range(SUITS) : Cardinality(SuitRanks(cards, s)) < 5
  /\ Cardinality(RanksOf(Range(cards))) = Len(cards)

\* C27: straight detection gives the top rank of the highest run of five
\* consecutive distinct ranks, the ace counting as 1 only in the wheel
\* A-2-3-4-5 (a wheel with two unrelated cards and no flush is a Straight
\* with tiebreak 5); a run of six or seven reports its highest card; there is
\* no wrap-around (Q-K-A-2-3 is no straight).
C27_StraightDetection ==
  Ranked =>
    \A R \in {RanksOf(Range(ranked.cards))} :
       /\ isStraight(SortDesc(R)) = StraightTop(R)
       /\ \A s \in Range(SUITS) :
             isStraight(SortDesc(SuitRanks(ranked.cards, s)))
                = StraightTop(SuitRanks(ranked.cards, s))
       /\ ranked.rank.category = 4 => ranked.rank.tiebreak = <<StraightTop(R)>>
       /\ Plain(ranked.cards) =>
             ranked.rank.category = (IF StraightTop(R) # 0 THEN 4 ELSE 0)
       /\ (Plain(ranked.cards) /\ {14, 2, 3, 4, 5} \subseteq R /\ 6 \notin R)
             => ranked.rank = [category |-> 4, tiebreak |-> <<5>>]
       /\ (Plain(ranked.cards) /\ \E h \in 6..14 : ((h - 5)..h) \subseteq R)
             => ranked.rank.tiebreak = <<SetMax({h \in 6..14 : ((h - 5)..h) \subseteq R})>>
       /\ R = {12, 13, 14, 2, 3, 7, 9} => ranked.rank.category = 0

\* A wheel with a nine and a queen, no flush, has been ranked: a Straight
\* whose top card is the five.
C27_Wheel ==
  /\ Ranked
  /\ Plain(ranked.cards)
  /\ RanksOf(Range(ranked.cards)) = {14, 2, 3, 4, 5, 9, 12}
  /\ ranked.rank = [category |-> 4, tiebreak |-> <<5>>]

----------------------------------------------------------------------------
(* Bets *)

\* the step is an accepted bet
BetAccepted == ActionCalled /\ lastCall'.kind = "bet" /\ lastCall'.ok

\* the seats, other than the seat to act, whose player is in the hand and
\* not all-in
Others(ps) == Able(ps) \ {state.turnSeat}

\* in the engine e the bet stands at what seat s has put in on this street, s
\* is the last aggressor and has acted, and the other players who can still
\* act have not
Reopened(e, s) ==
  /\ e.state.currentBet = e.streetBets[s + 1]
  /\ e.state.lastAggressorSeat = s
  /\ e.state.players[s + 1].hasActedThisRound
  /\ \A t \in Able(e.state.players) \ {s} : ~e.state.players[t + 1].hasActedThisRound

\* C28, as the specification states it: after an accepted bet currentBet
\* equals the bettor's resulting street contribution (the payment is
\* min(max(bigBlind, requested), stack)), lastAggressorSeat is the bettor,
\* the bettor's hasActedThisRound is true and it is false for every other
\* in-hand, non-all-in player.
C28_BetReopensRound ==
  [][BetAccepted =>
       /\ Paid = Min(Max(state.bigBlind, lastCall'.amount),
                     state.players[state.turnSeat + 1].stack)
       /\ state'.currentBet = Contributed + Paid
       /\ Reopened(thisAfter, state.turnSeat)]_vars

\* C28, amended: an accepted bet pays min(max(bigBlind, requested), stack)
\* and makes the bettor the last aggressor; the bet branch sets currentBet to
\* the bettor's street contribution, the bettor's hasActedThisRound to true
\* and that of every other in-hand, non-all-in player to false.  This is the
\* state after the call when such another player exists.  When there is none
\* the bet closes the round within the call: the stage advances, currentBet
\* and the street contributions are 0 again and nobody has acted.
C28_BetReopensOrCloses ==
  [][BetAccepted =>
       /\ Paid = Min(Max(state.bigBlind, lastCall'.amount),
                     state.players[state.turnSeat + 1].stack)
       /\ Contributed = 0
       /\ Acted.state.currentBet = Paid
       /\ Reopened(Acted, state.turnSeat)
       /\ state'.lastAggressorSeat = state.turnSeat
       /\ IF Others(state.players) # {}
          THEN /\ state'.stage = state.stage
               /\ state'.currentBet = Paid
               /\ Reopened(thisAfter, state.turnSeat)
          ELSE /\ state'.stage # state.stage
               /\ state'.currentBet = 0
               /\ \A i \in DOMAIN streetBets' : streetBets'[i] = 0
               /\ \A i \in DOMAIN state'.players :
                     ~state'.players[i].hasActedThisRound]_vars

\* A bet has just been accepted from the only player with chips left in the
\* hand: the next street is dealt, nothing is owed and nobody has acted.
C28_BetClosedRound ==
  /\ lastCall.op = "playerAction" /\ lastCall.kind = "bet" /\ lastCall.ok
  /\ state.stage \in {"turn", "river"}
  /\ state.currentBet = 0
  /\ state.lastAggressorSeat \in Able(state.players)
  /\ Able(state.players) = {state.lastAggressorSeat}
  /\ \A i \in DOMAIN totalBets :
        i # state.lastAggressorSeat + 1 => totalBets[i] < totalBets[state.lastAggressorSeat + 1]
  /\ \A i \in DOMAIN state.players : ~state.players[i].hasActedThisRound

----------------------------------------------------------------------------
(* Raises *)

\* in the engine e a raise of the seat to act has lifted the bet to c
Lifted(e, c) ==
  /\ e.state.currentBet = c
  /\ e.state.lastAggressorSeat = state.turnSeat
  /\ \A t \in Able(e.state.players) \ {state.turnSeat} :
        ~e.state.players[t + 1].hasActedThisRound

\* in the engine e the bet, the minimum raise, the last aggressor and the
\* hasActedThisRound of every player but the seat to act are as they were
\* before the step
Kept(e) ==
  /\ e.state.currentBet = state.currentBet
  /\ e.state.minRaise = state.minRaise
  /\ e.state.lastAggressorSeat = state.lastAggressorSeat
  /\ \A i \in DOMAIN state.players :
        i # state.turnSeat + 1 =>
           e.state.players[i].hasActedThisRound = state.players[i].hasActedThisRound

\* C29, as the specification states it: an accepted raise whose resulting
\* street contribution exceeds the previous currentBet sets currentBet to
\* it, makes the raiser the last aggressor and clears hasActedThisRound of
\* every other in-hand, non-all-in player; an accepted raise that ends at or
\* below the previous currentBet (all-in for less) leaves currentBet,
\* minRaise, lastAggressorSeat and every other player's hasActedThisRound
\* unchanged.
C29_RaiseFrame ==
  [][RaiseAccepted =>
       IF Contributed + Paid > state.currentBet
       THEN Lifted(thisAfter, Contributed + Paid)
       ELSE Kept(thisAfter)]_vars

\* C29, amended: the raise branch does so, and the raiser has then acted.
\* This is the state after the call, on the same street, unless the raise
\* closes the round: when every in-hand, non-all-in player has then acted and
\* matched currentBet (after a higher raise: when the raiser is the only such
\* player or there is none), the same call advances the stage, currentBet and
\* the street contributions are 0 again and nobody has acted.
C29_RaiseFrameOrCloses ==
  [][RaiseAccepted =>
       /\ IF Contributed + Paid > state.currentBet
          THEN Lifted(Acted, Contributed + Paid) /\ Acted.state.minRaise = state.bigBlind
          ELSE Kept(Acted)
       /\ Acted.state.players[state.turnSeat + 1].hasActedThisRound
       /\ state'.lastAggressorSeat = Acted.state.lastAggressorSeat
       /\ IF RoundClosed(Acted)
          THEN /\ state'.stage # state.stage
               /\ state'.currentBet = 0
               /\ \A i \in DOMAIN streetBets' : streetBets'[i] = 0
               /\ \A i \in DOMAIN state'.players : ~state'.players[i].hasActedThisRound
               /\ Contributed + Paid > state.currentBet => Others(Acted.state.players) = {}
          ELSE /\ state'.stage = state.stage
               /\ state'.players[state.turnSeat + 1].hasActedThisRound
               /\ IF Contributed + Paid > state.currentBet
                  THEN Lifted(thisAfter, Contributed + Paid)
                  ELSE Kept(thisAfter)]_vars

\* A raise over an all-in big blind has just been accepted from the only
\* player with chips left: the raiser is the last aggressor, the flop is
\* dealt, nothing is owed and nobody has acted.
C29_RaiseClosedRound ==
  /\ lastCall.op = "playerAction" /\ lastCall.kind = "raise" /\ lastCall.ok
  /\ state.stage = "flop"
  /\ state.currentBet = 0
  /\ \A i \in DOMAIN streetBets : streetBets[i] = 0
  /\ state.lastAggressorSeat \in Able(state.players)
  /\ state.players[state.lastAggressorSeat + 1].id = lastCall.id
  /\ ~state.players[state.lastAggressorSeat + 1].hasActedThisRound

----------------------------------------------------------------------------
(* The winners of a pot *)

\* the orders in which the seats S can be scanned
Scans(S) == {f \in [1..Cardinality(S) -> S] : Range(f) = S}

\* the seats the scan of resolveShowdown finds best when it goes through the
\* seats in the given order, h being the hands
Scanned(order, h) == Range(BestLoop(order, h, 1, [r |-> <<>>, seats |-> <<>>]).seats)

\* the seats named in lastWinners after the step
Named == {state'.lastWinners[i].seat : i \in DOMAIN state'.lastWinners}

\* C30: for each side pot at a full showdown, the winners are exactly the
\* eligible contenders whose (category, tiebreak) is maximal, category first
\* and then the tiebreak element by element with a missing element read as
\* 0; contenders of equal rank all win, and the result does not depend on
\* the order in which the eligible seats are scanned.  The seats paid and
\* the seats named as winners are the winners of the pots.
C30_PotWinners ==
  [][ShowdownStep =>
       \A h \in {Hands}, pots \in {state'.pots} :
          /\ \A k \in DOMAIN pots :
                /\ EligibleIn(k) # {} => BestIn(k, h) # {}
                /\ \A s, t \in EligibleIn(k) :
                      (s \in BestIn(k, h) /\ h[s] = h[t]) => t \in BestIn(k, h)
                /\ \A order \in Scans(EligibleIn(k)) : Scanned(order, h) = BestIn(k, h)
          /\ Winners = UNION {BestIn(k, h) : k \in DOMAIN pots}
          /\ Named = Winners]_vars

\* A showdown between two pairs of kings with the same two highest kickers
\* has been decided by the third: seat 2 (king, eight) is a winner and seat 5
\* (king, five) is not.
C30_ThirdKickerDecides ==
  /\ FullShowdown
  /\ lastCall.op = "playerAction"
  /\ state.community[1].rank = 13
  /\ state.players[3].inHand /\ state.players[6].inHand
  /\ state.players[3].hole = <<Card(13, "h"), Card(8, "d")>>
  /\ state.players[6].hole = <<Card(13, "s"), Card(5, "h")>>
  /\ 2 \in {state.lastWinners[i].seat : i \in DOMAIN state.lastWinners}
  /\ 5 \notin {state.lastWinners[i].seat : i \in DOMAIN state.lastWinners}

----------------------------------------------------------------------------
(* The streets *)

\* the step is an accepted action that closed the betting round and advanced
\* the stage (a fold that leaves one player ends the hand without advancing)
Advanced ==
  /\ ActionCalled /\ lastCall'.ok
  /\ state'.stage # state.stage
  /\ ~(FoldAccepted /\ Cardinality(InHand(state'.players)) = 1)

\* the cards a stage takes off the deck when it is entered: one burnt and the
\* ones revealed
DrawnFor(stage) ==
  CASE stage = "flop" -> 4
    [] stage \in {"turn", "river"} -> 2
    [] OTHER -> 0

\* C31: the number of community cards is determined by the stage: 0 in
\* preflop, 3 in flop, 4 in turn, 5 in river; each stage advance removes one
\* burn card plus the revealed cards from the deck (4, 2 and 2 cards), the
\* revealed ones being those under the burnt top card, and a stage advance
\* leaves currentBet at 0, every street-ledger entry at 0 and every
\* hasActedThisRound flag false.
C31_StreetsDealt ==
  /\ [](/\ state.stage = "preflop" => Len(state.community) = 0
        /\ state.stage = "flop" => Len(state.community) = 3
        /\ state.stage = "turn" => Len(state.community) = 4
        /\ state.stage = "river" => Len(state.community) = 5)
  /\ [][Advanced =>
          /\ Len(state'.deck) = Len(state.deck) - DrawnFor(state'.stage)
          /\ state'.deck = SubSeq(state.deck, 1, Len(state'.deck))
          /\ Len(state'.community) = Len(state.community) + DrawnFor(state'.stage) - 1
               \/ (state'.stage = "showdown" /\ state'.community = state.community)
          /\ \A i \in DOMAIN state'.community :
                state'.community[i] =
                   IF i <= Len(state.community) THEN state.community[i]
                   ELSE state.deck[Len(state.deck) - (i - Len(state.community))]
          /\ state'.currentBet = 0
          /\ \A i \in DOMAIN streetBets' : streetBets'[i] = 0
          /\ Len(streetBets') = Len(state'.players)
          /\ \A i \in DOMAIN state'.players : ~state'.players[i].hasActedThisRound]_vars

\* The river has just been dealt to two players: five community cards, and of
\* the 52 cards four are in the hands, three were burnt and 40 are left.
C31_RiverDealt ==
  /\ lastCall.op = "playerAction" /\ lastCall.ok
  /\ state.stage = "river"
  /\ Len(state.community) = 5
  /\ Len(state.players) = 2
  /\ Len(state.deck) = 40
  /\ state.currentBet = 0
  /\ \A i \in DOMAIN state.players :
        /\ Len(state.players[i].hole) = 2
        /\ ~state.players[i].hasActedThisRound
        /\ streetBets[i] = 0

----------------------------------------------------------------------------
(* commitChips on a table of three *)

\* the stacks and the contributions of the three players before the calls,
\* and the amounts the calls ask for
CommitStacks == {0, 1, 3}
CommitBets == {0, 2}
CommitAmounts == {-1, 0, 1, 2, 5}

\* A hand of three players before the flop, blinds 1 and 2: a player without
\* chips who has paid is all-in, one who has not paid was not dealt in.
CommitTable(stacks, bets) ==
  LET reqs == <<[id |-> "s1", name |-> "ann"], [id |-> "s2", name |-> "bob"],
                [id |-> "s3", name |-> "cat"]>>
      deck == ShuffledDecks[1]
      dealt(i) == stacks[i] > 0 \/ bets[i] > 0
  IN [stage |-> "preflop",
      players |-> [i \in 1..3 |->
                     [id |-> reqs[i].id, name |-> reqs[i].name,
                      stack |-> stacks[i], seat |-> i - 1,
                      hole |-> IF dealt(i) THEN <<deck[53 - 2 * i], deck[52 - 2 * i]>> ELSE <<>>,
                      inHand |-> dealt(i), hasActedThisRound |-> FALSE,
                      isAllIn |-> (stacks[i] = 0 /\ bets[i] > 0), isOwner |-> (i = 1)]],
      dealerSeat |-> 0, smallBlind |-> 1, bigBlind |-> 2,
      currentBet |-> 2, minRaise |-> 2, pot |-> bets[1] + bets[2] + bets[3],
      community |-> <<>>, turnSeat |-> 0, deck |-> SubSeq(deck, 1, 46),
      lastAggressorSeat |-> 2, message |-> Msg("New hand", <<>>, <<>>),
      lastWinners |-> <<>>, pots |-> <<>>]

InitCommit ==
  \E stacks \in [1..3 -> CommitStacks], bets \in [1..3 -> CommitBets] :
    /\ state = CommitTable(stacks, bets)
    /\ streetBets = bets
    /\ totalBets = bets
    /\ publicReveals = <<>>
    /\ revealSeats = {}
    /\ actionLog = <<>>
    /\ bought = stacks[1] + stacks[2] + stacks[3] + bets[1] + bets[2] + bets[3]
    /\ hands = 1
    /\ acts = 0
    /\ lastCall = [op |-> "new", id |-> "", kind |-> "", amount |-> 0, ok |-> TRUE]
    /\ gone = {}
    /\ view = <<>>
    /\ chosen = {}
    /\ ranked = [cards |-> <<>>, rank |-> Unranked]

\* commitChips(seat, amount) is called, as postBlind and the call, bet and
\* raise branches call it; `ok` tells whether chips were paid
CommitChips(seat, amount) ==
  LET r == commitChips(this, seat, amount) IN
  /\ Apply(r.this)
  /\ Called("commitChips", state.players[seat + 1].id, "", amount, r.ret > 0)
  /\ UNCHANGED <<bought, hands, acts, gone, view, chosen, ranked>>

NextCommit ==
  \E seat \in 0..(Len(state.players) - 1), amount \in CommitAmounts :
     CommitChips(seat, amount)

SpecCommit == InitCommit /\ [][NextCommit]_vars

\* the step is a commitChips call that pays `pay` for the seat s: the stack
\* falls by it, the pot and both ledger entries of the seat rise by it, the
\* player is flagged all-in if the payment takes the last chip (and stays
\* flagged otherwise), and nothing else changes
Commits(s, pay) ==
  /\ state' = [state EXCEPT !.players[s + 1].stack = @ - pay,
                            !.players[s + 1].isAllIn = @ \/ (pay > 0 /\ state.players[s + 1].stack = pay),
                            !.pot = @ + pay]
  /\ streetBets' = [streetBets EXCEPT ![s + 1] = @ + pay]
  /\ totalBets' = [totalBets EXCEPT ![s + 1] = @ + pay]
  /\ UNCHANGED <<publicReveals, revealSeats, actionLog>>

\* C32: commitChips(seat, amount) pays exactly min(amount, stack), never a
\* negative amount: the stack falls by it, the pot and both ledger entries of
\* that seat rise by it, no other seat changes, the player is flagged all-in
\* exactly when the payment brings the stack to 0, and the returned value is
\* the amount paid.
C32_CommitChips ==
  [][lastCall'.op = "commitChips" =>
       \A s \in {SeatOf(lastCall'.id)}, amount \in {lastCall'.amount} :
          \A pay \in {IF amount < 0 THEN 0 ELSE Min(amount, state.players[s + 1].stack)} :
             /\ pay >= 0 /\ pay <= state.players[s + 1].stack
             /\ amount >= 0 => pay <= amount
             /\ Commits(s, pay)
             /\ commitChips(this, s, amount).ret = pay
             /\ lastCall'.ok <=> pay > 0
             /\ state'.players[s + 1].stack >= 0
             /\ pay > 0 => (state'.players[s + 1].isAllIn <=> state'.players[s + 1].stack = 0)]_vars

\* A call that asked for more than the stack has just been paid with the last
\* chips of its player, who is all-in, while another player keeps chips.
C32_PaidAllIn ==
  /\ lastCall.op = "commitChips" /\ lastCall.ok
  /\ \E i \in DOMAIN state.players :
        /\ state.players[i].id = lastCall.id
        /\ state.players[i].stack = 0 /\ state.players[i].isAllIn
        /\ totalBets[i] = 5 /\ lastCall.amount = 5
        /\ state.pot = totalBets[1] + totalBets[2] + totalBets[3]
  /\ \E i \in DOMAIN state.players : state.players[i].stack > 0

----------------------------------------------------------------------------
(* A player removed during a hand *)

\* the step removed a seated player while a betting round was on
RemovedInHand ==
  /\ lastCall'.op = "removePlayer"
  /\ state.stage \in BettingStages
  /\ state'.players # state.players

\* the seat to act designates a player of ps who is in the hand and not all-in
TurnHeld(ps, seat) ==
  /\ seat \in 0..(Len(ps) - 1)
  /\ ps[seat + 1].inHand /\ ~ps[seat + 1].isAllIn

\* C33: removing a player during a betting stage leaves the hand able to
\* proceed: afterwards either the seat to act designates a remaining player
\* who is in the hand and not all-in and whose turn it rightfully is (the
\* player whose turn it was, when that player was not the one removed), or
\* the hand has ended; the seat to act is never out of range.
C33_RemovalKeepsHandGoing ==
  [][RemovedInHand =>
       \/ state'.stage \notin BettingStages
       \/ /\ TurnHeld(state'.players, state'.turnSeat)
          /\ (TurnHeld(state.players, state.turnSeat)
                /\ state.players[state.turnSeat + 1].id # lastCall'.id)
               => state'.players[state'.turnSeat + 1].id
                     = state.players[state.turnSeat + 1].id]_vars

\* A player has just been removed during a betting round: two players remain
\* in the hand with chips, and the seat to act is past the end of the table,
\* so that no action of either is accepted.
C33_TurnPastTable ==
  /\ lastCall.op = "removePlayer"
  /\ state.stage \in BettingStages
  /\ state.turnSeat = Len(state.players)
  /\ Cardinality(Able(state.players)) = 2
  /\ \A id \in Ids, kind \in Kinds : ~playerAction(this, id, kind, 0).ret

----------------------------------------------------------------------------
(* The pot and the ledger *)

\* the chips the ledger of the hand accounts for
Ledger == SumSeq(totalBets)

\* C34: in every betting-stage state the pot equals the sum of totalBets over
\* the seated players (one entry for each), so the side pots built from the
\* ledger account for exactly the chips in the pot; this holds across
\* playerAction, stage advances, addPlayer and removePlayer during a hand.
C34_PotIsLedger ==
  state.stage \in BettingStages =>
     /\ Len(totalBets) = Len(state.players)
     /\ state.pot = Ledger
     /\ SumSeq([k \in 1..Len(buildSidePots(this)) |-> buildSidePots(this)[k].amount])
           = state.pot

\* A player who has paid into the pot has just been removed during a betting
\* round: the ledger of the remaining players, and the side pots built from
\* it, account for fewer chips than the pot holds.
C34_PotAboveLedger ==
  /\ lastCall.op = "removePlayer"
  /\ state.stage \in BettingStages
  /\ Len(state.players) = 2
  /\ state.pot > Ledger
  /\ SumSeq([k \in 1..Len(buildSidePots(this)) |-> buildSidePots(this)[k].amount])
        = Ledger

----------------------------------------------------------------------------
(* Players who joined during the hand *)

\* the positions of the players who hold no hole cards
Cardless == {i \in DOMAIN state.players : state.players[i].hole = <<>>}

\* C35: in every betting-stage state every player flagged in-hand holds
\* exactly two hole cards, taken from the deck of the current hand, and every
\* player without hole cards is not in-hand; so a player added while a hand
\* is in progress is never the one asked to act, and is never awarded the pot
\* the hand ends with.
C35_InHandHoldsCards ==
  /\ state.stage \in BettingStages =>
        /\ \A i \in InHand(state.players) :
              /\ Len(state.players[i].hole) = 2
              /\ Range(state.players[i].hole) \cap Range(state.deck) = {}
        /\ \A i \in Cardless : ~state.players[i].inHand
        /\ state.turnSeat + 1 \notin Cardless
  /\ state.stage = "showdown" =>
        \A k \in DOMAIN state.lastWinners :
           (state.lastWinners[k].seat + 1 \in DOMAIN state.players
              /\ state.lastWinners[k].amount > 0)
             => state.lastWinners[k].seat + 1 \notin Cardless

\* A player who joined during the hand and was dealt no cards has just won
\* its pot: the two players who were dealt in have folded.
C35_JoinerWonPot ==
  /\ lastCall.op = "playerAction" /\ lastCall.kind = "fold" /\ lastCall.ok
  /\ state.stage = "showdown"
  /\ Len(state.players) = 3
  /\ Len(state.lastWinners) = 1
  /\ state.lastWinners[1].seat = 2
  /\ state.lastWinners[1].amount > 0
  /\ state.players[3].hole = <<>>
  /\ state.players[3].inHand
  /\ ~state.players[1].inHand /\ ~state.players[2].inHand

----------------------------------------------------------------------------
(* A hand started over *)

\* C36: startHand never destroys committed chips: whenever startHand takes
\* effect the pot it clears is already 0, so the stacks and the pot (the
\* blinds just posted) hold after the call what the stacks and the pot held
\* before it.
C36_StartHandKeepsChips ==
  [][(StartCalled /\ Len(state.players) >= 2) =>
       /\ state.pot = 0
       /\ Stacks' + state'.pot = Stacks + state.pot]_vars

\* A second hand has just been started before the first one was played out:
\* the blinds of the second hand are in the pot, and the three chips of the
\* first hand's blinds are neither in the pot nor in a stack.
C36_BlindsVanished ==
  /\ lastCall.op = "startHand"
  /\ hands = 2
  /\ acts = 0
  /\ state.stage = "preflop"
  /\ state.pot = 3
  /\ Ledger = 3
  /\ Stacks + state.pot = bought - 3

----------------------------------------------------------------------------
(* Reveals after a departure *)

\* the step removed a seated player after the hand had ended
RemovedAtShowdown ==
  /\ lastCall'.op = "removePlayer"
  /\ state.stage = "showdown"
  /\ state'.players # state.players

\* the players for whom the broadcast view of e lists publicly revealed cards
\* that are not their own hole cards
Misattributed(e) ==
  {i \in DOMAIN e.state.players :
     /\ getBroadcastView(e).players[i].publicHole # <<>>
     /\ getBroadcastView(e).players[i].publicHole # e.state.players[i].hole}

\* C37: reveal state follows the player, not the seat number: after any
\* removePlayer during showdown the players permitted to show or muck are
\* the same among those who remain, and the publicly revealed cards listed
\* for a player in the broadcast view are always that player's own hole
\* cards.
C37_RevealsFollowPlayer ==
  /\ [](Misattributed(this) = {})
  /\ [][RemovedAtShowdown =>
          \A k \in 1..NumGuests :
             hasPlayer(thisAfter, Guest(k).id) =>
                (canReveal(thisAfter, Guest(k).id) <=> canReveal(this, Guest(k).id))]_vars

\* A player has just left after a showdown: the broadcast view lists for a
\* remaining player the cards another player revealed, and a player who
\* could not show or muck before now can.
C37_CardsOfAnother ==
  /\ lastCall.op = "removePlayer"
  /\ state.stage = "showdown"
  /\ \E i \in Misattributed(this), j \in DOMAIN state.players :
        /\ j # i
        /\ getBroadcastView(this).players[i].publicHole = state.players[j].hole
  /\ \E i \in DOMAIN state.players :
        /\ state.players[i].hole = <<>>
        /\ canReveal(this, state.players[i].id)

----------------------------------------------------------------------------
(* All-in players *)

\* in a betting stage every in-hand player is flagged all-in exactly when
\* the stack is 0
AllInIsBroke ==
  state.stage \in BettingStages =>
     \A i \in InHand(state.players) :
        state.players[i].isAllIn <=> state.players[i].stack = 0

\* C38: in every betting-stage state an in-hand player is flagged all-in if
\* and only if the stack is 0; hence the seat to act never designates a
\* player whose stack is 0.
C38_AllInIffBroke ==
  /\ AllInIsBroke
  /\ (state.stage \in BettingStages /\ state.turnSeat \in 0..(Len(state.players) - 1))
        => state.players[state.turnSeat + 1].stack > 0

\* Heads-up, after a hand played to its end, the small blind took the last
\* chip of the player at the seat to act: a hand has just begun in which the
\* player the table waits for is in the hand, all-in and without chips, while
\* the other player has chips and is not to act.
C38_BrokeToAct ==
  /\ lastCall.op = "startHand"
  /\ state.stage = "preflop"
  /\ Len(state.players) = 2
  /\ Stacks + state.pot = bought
  /\ AllInIsBroke
  /\ state.players[state.turnSeat + 1].inHand
  /\ state.players[state.turnSeat + 1].isAllIn
  /\ state.players[state.turnSeat + 1].stack = 0
  /\ streetBets[state.turnSeat + 1] = state.smallBlind
  /\ \E i \in Able(state.players) : i # state.turnSeat

----------------------------------------------------------------------------
(* The action log near its capacity *)

\* how far below its capacity the log may be when the river is reached
LogRoom == 3

\* the lengths of the log when the river is reached
LogFills == {LOG_LIMIT - k : k \in 0..LogRoom}

\* The river of the hands in which seats 0, 2, 5 and 7 have each paid 25,
\* late in a session: the log holds the entries of the calls made so far, the
\* i-th oldest one told apart by its number.
InitLog ==
  \E board \in Boards, deal \in Deals, fill \in LogFills :
    /\ state = RiverTable(board, deal, <<25, 0, 25, 0, 0, 25, 0, 25>>)
    /\ streetBets = <<0, 0, 0, 0, 0, 0, 0, 0>>
    /\ totalBets = <<25, 0, 25, 0, 0, 25, 0, 25>>
    /\ publicReveals = <<>>
    /\ revealSeats = {}
    /\ actionLog = [i \in 1..fill |-> ToString(i)]
    /\ bought = 140
    /\ hands = 1
    /\ acts = 0
    /\ lastCall = [op |-> "new", id |-> "", kind |-> "", amount |-> 0, ok |-> TRUE]
    /\ gone = {}
    /\ view = <<>>
    /\ chosen = {}
    /\ ranked = [cards |-> <<>>, rank |-> Unranked]

\* The hand is played out, shown and mucked as in SpecShowdown.
NextLog == NextShowdown

SpecLog == InitLog /\ [][NextLog]_vars

\* the most entries one call appends (a check that ends the hand: the check
\* and the showdown)
MaxAppended == 2

\* the last n entries of l, in their order
Latest(l, n) == SubSeq(l, Len(l) - n + 1, Len(l))

\* the engine e with an empty log, and what the engine holds besides the log
Blank(e) == [e EXCEPT !.actionLog = <<>>]
Decided(e) == [state |-> e.state, streetBets |-> e.streetBets, totalBets |-> e.totalBets,
               publicReveals |-> e.publicReveals, revealSeats |-> e.revealSeats]

\* C39: the action log never holds more than its capacity of 200 entries:
\* every call leaves the log it found with its new entries appended, cut down
\* to the 200 most recent ones in their original order; and no game decision
\* (whether a call is accepted, the turn, the stage, the payout, the reveals)
\* depends on what the log holds.
C39_LogBounded ==
  /\ [](Len(actionLog) <= LOG_LIMIT)
  /\ [][/\ \E k \in 0..MaxAppended :
              \A l \in {actionLog \o [i \in 1..k |-> LogItem("", <<>>, <<>>, <<>>)]} :
                 /\ Changed => k > 0
                 /\ actionLog' = Latest(l, Min(Len(l), LOG_LIMIT))
        /\ lastCall'.op = "playerAction" =>
              \A r \in {playerAction(Blank(this), lastCall'.id, lastCall'.kind, lastCall'.amount)} :
                 r.ret = lastCall'.ok /\ Decided(r.this) = Decided(thisAfter)
        /\ lastCall'.op = "doShow" =>
              \A r \in {doShow(Blank(this), lastCall'.id)} :
                 r.ret = lastCall'.ok /\ Decided(r.this) = Decided(thisAfter)
        /\ lastCall'.op = "doMuck" =>
              \A r \in {doMuck(Blank(this), lastCall'.id)} :
                 r.ret = lastCall'.ok /\ Decided(r.this) = Decided(thisAfter)]_vars

\* The log was full when the river was reached and four entries have been
\* appended since (a check, the showdown, a show and a muck): the four oldest
\* entries are gone, the fifth is now the first, and the 200 entries are the
\* 196 that followed it and the four new ones.
C39_OldestDropped ==
  /\ state.stage = "showdown"
  /\ Cardinality(chosen) = 2
  /\ Len(actionLog) = LOG_LIMIT
  /\ actionLog[1] = ToString(5)
  /\ actionLog[LOG_LIMIT - 4] = ToString(LOG_LIMIT)
  /\ \A i \in (LOG_LIMIT - 3)..LOG_LIMIT : actionLog[i] = LogItem("", <<>>, <<>>, <<>>)

----------------------------------------------------------------------------
(* The cards that are ranked *)

\* the step is an accepted action that ended the hand with two or more
\* contenders: resolveShowdown ranked each of them
RankingStep ==
  /\ ActionCalled /\ lastCall'.ok
  /\ state.stage \in BettingStages /\ state'.stage = "showdown"
  /\ Cardinality(Contenders) >= 2

\* C40: full showdown ranking is only reached from the river: whenever
\* resolveShowdown ranks contenders there are exactly 5 community cards, so
\* every rank7 call receives exactly 7 distinct cards, the 5 community cards
\* and the 2 hole cards of the contender, and every winner is given the
\* category of those cards.
C40_RankedFromRiver ==
  [][RankingStep =>
       /\ state.stage = "river"
       /\ Len(state.community) = 5
       /\ state'.community = state.community
       /\ \A s \in Contenders :
             /\ Len(state.players[s + 1].hole) = 2
             /\ Len(state.community \o state.players[s + 1].hole) = 7
             /\ Cardinality(Range(state.community \o state.players[s + 1].hole)) = 7
       /\ \A k \in DOMAIN state'.lastWinners :
             /\ state'.lastWinners[k].seat \in Contenders
             /\ state'.lastWinners[k].category = HandOf(state'.lastWinners[k].seat).category]_vars

\* A hand of three players has just been played to the river and ranked: all
\* three are contenders, each holding two cards beside the five on the board.
C40_ThreeRanked ==
  /\ FullShowdown
  /\ lastCall.op = "playerAction" /\ lastCall.ok
  /\ Len(state.community) = 5
  /\ Len(state.players) = 3
  /\ \A i \in DOMAIN state.players :
        /\ state.players[i].inHand
        /\ Cardinality(Range(state.community \o state.players[i].hole)) = 7

====
